---- MODULE Spec2Model ----
(***************************************************************************)
(* NoneCipherTransport (src/none_cipher_transport.py): an SSH transport     *)
(* whose stream activation branches between a null-aware path, taken when   *)
(* the negotiated cipher or MAC of a direction is "none", and the standard  *)
(* activation of paramiko.Transport.  The demo client and server            *)
(* (src/ssh_client.py, src/ssh_server.py) put "none" first in their         *)
(* preference lists.                                                        *)
(*                                                                          *)
(* Python values are modelled as follows: None is the record None, a dict   *)
(* is a function on its keys, bytes derived by _compute_key are a record    *)
(* naming the slot letter, the length and the key exchange they come from,  *)
(* a cipher engine is a record of the arguments it was built from.          *)
(***************************************************************************)
EXTENDS Integers, Sequences, FiniteSets, TLC

VARIABLES
    server_mode,          \* Transport.server_mode
    server_sig_algs,      \* Transport.server_sig_algs (constructor argument)
    negotiated,           \* local_/remote_ cipher, mac, compression
    agreed_on_strict_kex, \* Transport.agreed_on_strict_kex
    remote_ext_info,      \* Transport._remote_ext_info
    authenticated,        \* Transport.authenticated
    in_kex,               \* Transport.in_kex
    expected_packet,      \* Transport._expected_packet
    channels,             \* the channel table (ids of open channels)
    packetizer,           \* per-direction Packetizer state, need_rekey, init_count
    phase,                \* position in the key exchange
    kex_count,            \* completed key exchanges
    last,                 \* per direction: what the last activation did
    ext_info_sent,        \* EXT_INFO messages sent so far, per activation path
    cipher_info,          \* Transport._cipher_info (process-wide dict)
    mac_info,             \* Transport._mac_info (process-wide dict)
    sessions,             \* per session: construction step and preference lists
    peer,                 \* the peer's KEXINIT preference lists
    agreed,               \* per session: the result of negotiation
    wire,                 \* packets in flight from the sender to its peer
    tx_log,               \* payloads handed to send, in order
    rx_log,               \* payloads receive produced on the peer, in order
    rx_error,             \* the error receive failed with, if any
    tampered,             \* a packet was altered in transit
    side,                 \* the endpoint of the link whose code runs next
    srv,                  \* handle_connection of the demo server: position, locals
    cli,                  \* main of the demo client: position, locals
    channel,              \* the client's end of the session channel
    network,              \* messages in flight from the server to the client
    handlers,             \* per accepted connection: the handler thread's objects
    events                \* the threading.Event objects that are set

tvars == <<server_mode, server_sig_algs, negotiated, agreed_on_strict_kex,
           remote_ext_info, authenticated, in_kex, expected_packet, channels,
           packetizer, phase, kex_count, last, ext_info_sent>>
rvars == <<cipher_info, mac_info>>
pvars == <<sessions, peer, agreed>>
lvars == <<wire, tx_log, rx_log, rx_error, tampered, side>>
dvars == <<srv, cli, channel, network>>
cvars == <<handlers, events>>
vars == <<tvars, rvars, pvars, lvars, dvars, cvars>>

-----------------------------------------------------------------------------
(* Bounds of the model *)

\* key exchanges (initial + rekeys) one transport goes through
MaxKex == 2
\* sequence numbers are counted modulo this (2^32 in the packetizer)
SeqMod == 3
\* channels one transport opens
MaxChannels == 1
\* longest preference list the peer offers
MaxPrefLen == 2

-----------------------------------------------------------------------------
(* Python values *)

None == [t |-> "None"]

\* bytes produced by _compute_key(id, nbytes) during key exchange number kex
DerivedKey(id, nbytes, kex) == [t |-> "bytes", slot |-> id, len |-> nbytes, kex |-> kex]

\* dict.get(key, default)
Get(d, key, default) == IF key \in DOMAIN d THEN d[key] ELSE default

\* dict.update({key: value})
Update(d, key, value) ==
    [k \in DOMAIN d \cup {key} |-> IF k = key THEN value ELSE d[k]]

Class(name) == [t |-> "class", name |-> name]

\* a Python str held where None may be held too
Str(s) == [t |-> "str", v |-> s]

-----------------------------------------------------------------------------
(* The algorithm registry *)

CipherNames == {"none", "aes128-ctr", "aes128-gcm@openssh.com"}
MacNames == {"none", "hmac-sha2-256", "hmac-sha2-256-etm@openssh.com"}
CompressionNames == {"none", "zlib", "zlib@openssh.com"}

\* paramiko.Transport._cipher_info before any NoneCipherTransport exists
BaseCipherInfo ==
    ("aes128-ctr" :>
        (("class" :> Class("AES")) @@ ("mode" :> Class("CTR")) @@
         ("block-size" :> 16) @@ ("key-size" :> 16))) @@
    ("aes128-gcm@openssh.com" :>
        (("class" :> Class("AES")) @@ ("mode" :> Class("GCM")) @@
         ("block-size" :> 16) @@ ("iv-size" :> 12) @@ ("key-size" :> 16) @@
         ("is_aead" :> TRUE)))

\* paramiko.Transport._mac_info before any NoneCipherTransport exists
BaseMacInfo ==
    ("hmac-sha2-256" :> (("class" :> Class("sha256")) @@ ("size" :> 32))) @@
    ("hmac-sha2-256-etm@openssh.com" :>
        (("class" :> Class("sha256")) @@ ("size" :> 32)))

\* paramiko.Transport._compression_info: name -> (compressor, decompressor)
CompressionInfo ==
    ("none" :> <<None, None>>) @@
    ("zlib" :> <<Class("ZlibCompressor"), Class("ZlibDecompressor")>>) @@
    ("zlib@openssh.com" :> <<Class("ZlibCompressor"), Class("ZlibDecompressor")>>)

\* mac_engine().digest_size
DigestSize(cls) == IF cls = Class("sha256") THEN 32 ELSE 0

\* a variant whose null cipher has no block size
NoneCipherInfoNoBlock ==
    ("class" :> None) @@ ("mode" :> None) @@ ("block-size" :> 0) @@
    ("key-size" :> 0) @@ ("iv-size" :> 0) @@ ("is_aead" :> FALSE)

\* the entry __init__ adds to _cipher_info
NoneCipherInfo ==
    ("class" :> None) @@ ("mode" :> None) @@ ("block-size" :> 8) @@
    ("key-size" :> 0) @@ ("iv-size" :> 0) @@ ("is_aead" :> FALSE)

\* the entry __init__ adds to _mac_info
NoneMacInfo == ("class" :> None) @@ ("size" :> 0)

\* "etm@openssh.com" in name, over the names of the registry
ContainsEtm(name) == name \in {"hmac-sha2-256-etm@openssh.com"}

\* name.endswith("-ctr"), over the names of the registry
EndsWithCtr(name) == name \in {"aes128-ctr"}

-----------------------------------------------------------------------------
(* Key derivation and engines *)

\* the key exchange whose K and H the transport holds: the running one, or
\* the last completed one when none is running
CurrentKex == IF phase = "idle" THEN kex_count ELSE kex_count + 1

\* Transport._compute_key(id, nbytes): depends on K, H of that key exchange
ComputeKey(id, nbytes) == DerivedKey(id, nbytes, CurrentKex)

\* paramiko.Transport._get_engine: an instantiated cipher
SuperGetEngine(name, key, iv, operation, aead) ==
    [t |-> "engine", name |-> name, key |-> key, iv |-> iv,
     operation |-> operation, aead |-> aead]

\* a variant that builds every engine as a non-AEAD one
GetEngineForgetsAead(name, key, iv, operation, aead) ==
    IF name = "none"
    THEN None
    ELSE SuperGetEngine(name, key, iv, operation, FALSE)

\* NoneCipherTransport._get_engine
GetEngine(name, key, iv, operation, aead) ==
    IF name = "none"
    THEN None
    ELSE SuperGetEngine(name, key, iv, operation, aead)

\* one call made during an activation, in program order
Call(op, arg) == [op |-> op, arg |-> arg]

-----------------------------------------------------------------------------
(* NoneCipherTransport._activate_inbound *)

\* a variant that takes the null-aware path only when both are "none"
InboundNeedsNoneBoth ==
    negotiated.remote_cipher = "none" /\ negotiated.remote_mac = "none"

\* the test that selects the null-aware inbound path
InboundNeedsNone ==
    negotiated.remote_cipher = "none" \/ negotiated.remote_mac = "none"

\* a variant that takes the client's inbound letters in either mode
InboundSlotsOfClient == [iv |-> "B", key |-> "D", mac |-> "F"]

\* slot letters of the inbound direction: IV, encryption key, integrity key
InboundSlots ==
    IF server_mode
    THEN [iv |-> "A", key |-> "C", mac |-> "E"]
    ELSE [iv |-> "B", key |-> "D", mac |-> "F"]

\* a variant that keeps the AEAD tag size for every cipher
DefaultMacSizeTag(aead) == 16

\* MAC size when no MAC engine is set up: the AEAD tag, or nothing
DefaultMacSize(aead) == IF aead THEN 16 ELSE 0

\* whether the null-aware path derives and instantiates the cipher
UsesCipher(name) == name # "none"

\* a variant that sets up a MAC engine for encrypt-then-mac names only
UsesMacEtmOnly(name, aead) == name # "none" /\ ~aead /\ ContainsEtm(name)

\* whether the null-aware path sets up a MAC engine
UsesMac(name, aead) == name # "none" /\ ~aead

\* the compression test of both activation methods
CompressionOn(cls, name) ==
    cls # None /\ (name # "zlib@openssh.com" \/ authenticated)

\* the null-aware branch of _activate_inbound: the arguments handed to
\* set_inbound_cipher, and the calls made, in program order
NullInbound ==
    LET remote_cipher_name == negotiated.remote_cipher
        info == cipher_info[remote_cipher_name]
        aead == Get(info, "is_aead", FALSE)
        block_size == info["block-size"]
        cipher == UsesCipher(remote_cipher_name)
        key_size == info["key-size"]
        iv_size == Get(info, "iv-size", block_size)
        iv_in == IF cipher THEN ComputeKey(InboundSlots.iv, iv_size) ELSE None
        key_in == IF cipher THEN ComputeKey(InboundSlots.key, key_size) ELSE None
        engine == IF cipher
                  THEN GetEngine(remote_cipher_name, key_in, iv_in, "DECRYPT", aead)
                  ELSE None
        remote_mac_name == negotiated.remote_mac
        mac == UsesMac(remote_mac_name, aead)
        minfo == mac_info[remote_mac_name]
        mac_size == IF mac THEN minfo["size"] ELSE DefaultMacSize(aead)
        mac_engine == IF mac THEN minfo["class"] ELSE None
        mac_key == IF mac
                   THEN ComputeKey(InboundSlots.mac, DigestSize(mac_engine))
                   ELSE None
        etm == IF mac THEN ContainsEtm(remote_mac_name) ELSE FALSE
        compress_in == CompressionInfo[negotiated.remote_compression][2]
        compress == CompressionOn(compress_in, negotiated.remote_compression)
    IN  [kwargs |-> [block_engine |-> engine, block_size |-> block_size,
                     mac_engine |-> mac_engine, mac_size |-> mac_size,
                     mac_key |-> mac_key, sdctr |-> FALSE, etm |-> etm,
                     aead |-> aead, iv |-> IF aead THEN iv_in ELSE None],
         compressor |-> IF compress THEN compress_in ELSE None,
         compress |-> compress,
         reset |-> agreed_on_strict_kex,
         calls |->
            (IF cipher
             THEN <<Call("_compute_key", InboundSlots.iv),
                    Call("_compute_key", InboundSlots.key),
                    Call("_get_engine", remote_cipher_name)>>
             ELSE <<>>) \o
            (IF mac THEN <<Call("_compute_key", InboundSlots.mac)>> ELSE <<>>) \o
            <<Call("set_inbound_cipher", "")>> \o
            (IF compress THEN <<Call("set_inbound_compressor", "")>> ELSE <<>>) \o
            (IF agreed_on_strict_kex THEN <<Call("reset_seqno_in", "")>> ELSE <<>>)]

\* paramiko.Transport._activate_inbound, the standard activation sequence
StandardInbound ==
    LET name == negotiated.remote_cipher
        info == cipher_info[name]
        aead == Get(info, "is_aead", FALSE)
        block_size == info["block-size"]
        iv_size == Get(info, "iv-size", block_size)
        iv_in == ComputeKey(InboundSlots.iv, iv_size)
        key_in == ComputeKey(InboundSlots.key, info["key-size"])
        engine == SuperGetEngine(name, key_in, iv_in, "DECRYPT", aead)
        minfo == mac_info[negotiated.remote_mac]
        mac_key == ComputeKey(InboundSlots.mac, DigestSize(minfo["class"]))
        compress_in == CompressionInfo[negotiated.remote_compression][2]
        compress == CompressionOn(compress_in, negotiated.remote_compression)
    IN  [kwargs |-> [block_engine |-> engine, block_size |-> block_size,
                     mac_engine |-> IF aead THEN None ELSE minfo["class"],
                     mac_size |-> IF aead THEN 16 ELSE minfo["size"],
                     mac_key |-> IF aead THEN None ELSE mac_key,
                     sdctr |-> FALSE,
                     etm |-> ~aead /\ ContainsEtm(negotiated.remote_mac),
                     aead |-> aead, iv |-> IF aead THEN iv_in ELSE None],
         compressor |-> IF compress THEN compress_in ELSE None,
         compress |-> compress,
         reset |-> agreed_on_strict_kex,
         calls |->
            <<Call("_compute_key", InboundSlots.iv),
              Call("_compute_key", InboundSlots.key),
              Call("_get_engine", name),
              Call("_compute_key", InboundSlots.mac),
              Call("set_inbound_cipher", "")>> \o
            (IF compress THEN <<Call("set_inbound_compressor", "")>> ELSE <<>>) \o
            (IF agreed_on_strict_kex THEN <<Call("reset_seqno_in", "")>> ELSE <<>>)]

-----------------------------------------------------------------------------
(* NoneCipherTransport._activate_outbound *)

\* the test that selects the null-aware outbound path
OutboundNeedsNone ==
    negotiated.local_cipher = "none" \/ negotiated.local_mac = "none"

\* a variant that takes the server's outbound letters in either mode
OutboundSlotsOfServer == [iv |-> "B", key |-> "D", mac |-> "F"]

\* slot letters of the outbound direction: IV, encryption key, integrity key
OutboundSlots ==
    IF server_mode
    THEN [iv |-> "B", key |-> "D", mac |-> "F"]
    ELSE [iv |-> "A", key |-> "C", mac |-> "E"]

\* a variant that does not look at the mode of the transport
SendsExtInfoAnyMode ==
    server_sig_algs /\ remote_ext_info = Str("ext-info-c")

\* the test under which the null-aware path sends the extension-info message
SendsExtInfo ==
    server_mode /\ server_sig_algs /\ remote_ext_info = Str("ext-info-c")

\* the null-aware branch of _activate_outbound: the arguments handed to
\* set_outbound_cipher, and the calls made, in program order
NullOutbound ==
    LET local_cipher_name == negotiated.local_cipher
        info == cipher_info[local_cipher_name]
        aead == Get(info, "is_aead", FALSE)
        block_size == info["block-size"]
        cipher == UsesCipher(local_cipher_name)
        key_size == info["key-size"]
        iv_size == Get(info, "iv-size", block_size)
        iv_out == IF cipher THEN ComputeKey(OutboundSlots.iv, iv_size) ELSE None
        key_out == IF cipher THEN ComputeKey(OutboundSlots.key, key_size) ELSE None
        engine == IF cipher
                  THEN GetEngine(local_cipher_name, key_out, iv_out, "ENCRYPT", aead)
                  ELSE None
        sdctr == IF cipher THEN EndsWithCtr(local_cipher_name) ELSE FALSE
        local_mac_name == negotiated.local_mac
        mac == UsesMac(local_mac_name, aead)
        minfo == mac_info[local_mac_name]
        mac_size == IF mac THEN minfo["size"] ELSE DefaultMacSize(aead)
        mac_engine == IF mac THEN minfo["class"] ELSE None
        mac_key == IF mac
                   THEN ComputeKey(OutboundSlots.mac, DigestSize(mac_engine))
                   ELSE None
        etm == IF mac THEN ContainsEtm(local_mac_name) ELSE FALSE
        compress_out == CompressionInfo[negotiated.local_compression][1]
        compress == CompressionOn(compress_out, negotiated.local_compression)
    IN  [kwargs |-> [block_engine |-> engine, block_size |-> block_size,
                     mac_engine |-> mac_engine, mac_size |-> mac_size,
                     mac_key |-> mac_key, sdctr |-> sdctr, etm |-> etm,
                     aead |-> aead, iv |-> IF aead THEN iv_out ELSE None],
         compressor |-> IF compress THEN compress_out ELSE None,
         compress |-> compress,
         reset |-> agreed_on_strict_kex,
         ext_info |-> SendsExtInfo,
         calls |->
            <<Call("_send_message", "NEWKEYS")>> \o
            (IF agreed_on_strict_kex THEN <<Call("reset_seqno_out", "")>> ELSE <<>>) \o
            (IF cipher
             THEN <<Call("_compute_key", OutboundSlots.iv),
                    Call("_compute_key", OutboundSlots.key),
                    Call("_get_engine", local_cipher_name)>>
             ELSE <<>>) \o
            (IF mac THEN <<Call("_compute_key", OutboundSlots.mac)>> ELSE <<>>) \o
            <<Call("set_outbound_cipher", "")>> \o
            (IF compress THEN <<Call("set_outbound_compressor", "")>> ELSE <<>>) \o
            <<Call("need_rekey", "")>> \o
            (IF SendsExtInfo THEN <<Call("_send_message", "EXT_INFO")>> ELSE <<>>) \o
            <<Call("_expect_packet", "NEWKEYS")>>]

\* paramiko.Transport._activate_outbound, the standard activation sequence
StandardOutbound ==
    LET name == negotiated.local_cipher
        info == cipher_info[name]
        aead == Get(info, "is_aead", FALSE)
        block_size == info["block-size"]
        iv_size == Get(info, "iv-size", block_size)
        iv_out == ComputeKey(OutboundSlots.iv, iv_size)
        key_out == ComputeKey(OutboundSlots.key, info["key-size"])
        engine == SuperGetEngine(name, key_out, iv_out, "ENCRYPT", aead)
        minfo == mac_info[negotiated.local_mac]
        mac_key == ComputeKey(OutboundSlots.mac, DigestSize(minfo["class"]))
        compress_out == CompressionInfo[negotiated.local_compression][1]
        compress == CompressionOn(compress_out, negotiated.local_compression)
        ext == server_mode /\ server_sig_algs /\ remote_ext_info = Str("ext-info-c")
    IN  [kwargs |-> [block_engine |-> engine, block_size |-> block_size,
                     mac_engine |-> IF aead THEN None ELSE minfo["class"],
                     mac_size |-> IF aead THEN 16 ELSE minfo["size"],
                     mac_key |-> IF aead THEN None ELSE mac_key,
                     sdctr |-> EndsWithCtr(name),
                     etm |-> ~aead /\ ContainsEtm(negotiated.local_mac),
                     aead |-> aead, iv |-> IF aead THEN iv_out ELSE None],
         compressor |-> IF compress THEN compress_out ELSE None,
         compress |-> compress,
         reset |-> agreed_on_strict_kex,
         ext_info |-> ext,
         calls |->
            <<Call("_send_message", "NEWKEYS")>> \o
            (IF agreed_on_strict_kex THEN <<Call("reset_seqno_out", "")>> ELSE <<>>) \o
            <<Call("_compute_key", OutboundSlots.iv),
              Call("_compute_key", OutboundSlots.key),
              Call("_get_engine", name),
              Call("_compute_key", OutboundSlots.mac),
              Call("set_outbound_cipher", "")>> \o
            (IF compress THEN <<Call("set_outbound_compressor", "")>> ELSE <<>>) \o
            <<Call("need_rekey", "")>> \o
            (IF ext THEN <<Call("_send_message", "EXT_INFO")>> ELSE <<>>) \o
            <<Call("_expect_packet", "NEWKEYS")>>]

-----------------------------------------------------------------------------
(* The Packetizer *)

\* Packetizer.__init__: one direction before any activation
InitialDirection ==
    [cipher |-> [block_engine |-> None, block_size |-> 8, mac_engine |-> None,
                 mac_size |-> 0, mac_key |-> None, sdctr |-> FALSE,
                 etm |-> FALSE, aead |-> FALSE, iv |-> None],
     compressor |-> None,
     seqno |-> 0]

\* Packetizer.set_inbound_cipher / set_outbound_cipher record that their
\* direction was switched; once both were, the rekey request is cleared
Switched(init_count, bit) ==
    IF bit = 1
    THEN (IF init_count \in {0, 1} THEN 1 ELSE 3)
    ELSE (IF init_count \in {0, 2} THEN 2 ELSE 3)

\* one packet leaves or arrives: the direction's sequence number moves on
NextSeqno(n) == (n + 1) % SeqMod

\* the outbound side of the Packetizer while an activation runs: which
\* cipher state and compressor are in force, the sequence number, the
\* messages sent with the state each went out under, what is expected next
Running(seqno) ==
    [cipher |-> "old", compressor |-> "old", seqno |-> seqno,
     cipher_sets |-> 0, sent |-> <<>>, expects |-> {}]

\* one call of an outbound activation, applied to that state
Apply(st, call) ==
    IF call.op = "_send_message"
    THEN [st EXCEPT !.sent = Append(@, [type |-> call.arg, cipher |-> st.cipher,
                                        compressor |-> st.compressor,
                                        seqno |-> st.seqno]),
                    !.seqno = NextSeqno(@)]
    ELSE IF call.op = "reset_seqno_out" THEN [st EXCEPT !.seqno = 0]
    ELSE IF call.op = "set_outbound_cipher"
    THEN [st EXCEPT !.cipher = "new", !.cipher_sets = @ + 1]
    ELSE IF call.op = "set_outbound_compressor"
    THEN [st EXCEPT !.compressor = "new"]
    ELSE IF call.op = "_expect_packet"
    THEN [st EXCEPT !.expects = @ \cup {call.arg}]
    ELSE st

\* the calls of an activation applied in program order
RECURSIVE RunCalls(_, _)
RunCalls(calls, st) ==
    IF calls = <<>> THEN st
    ELSE RunCalls(Tail(calls), Apply(st, Head(calls)))

\* what an activation of one direction does to the Packetizer: the cipher
\* state is replaced, the compressor is replaced when compression is switched
\* on, and seqno is what the sends and the reset of the activation left
Activated(dir, bit, act, seqno) ==
    LET count == Switched(packetizer.init_count, bit)
    IN  [packetizer EXCEPT
            ![dir] = [cipher |-> act.kwargs,
                      compressor |-> IF act.compress THEN act.compressor
                                     ELSE packetizer[dir].compressor,
                      seqno |-> seqno],
            !.init_count = IF count = 3 THEN 0 ELSE count,
            !.need_rekey = IF count = 3 THEN FALSE ELSE packetizer.need_rekey]

-----------------------------------------------------------------------------
(* One transport: key exchanges, activations, traffic *)

Suite(lc, lm, rc, rm, comp) ==
    [local_cipher |-> lc, local_mac |-> lm,
     remote_cipher |-> rc, remote_mac |-> rm,
     local_compression |-> comp, remote_compression |-> comp]

\* the outcomes of negotiation the model goes through: every combination
\* that takes the null-aware path occurs in each direction, next to standard
\* ones, with each compression
Suites ==
    {Suite("none", "none", "none", "none", "none"),
     Suite("none", "hmac-sha2-256-etm@openssh.com",
           "aes128-ctr", "hmac-sha2-256", "zlib"),
     Suite("none", "hmac-sha2-256", "aes128-ctr", "none", "zlib@openssh.com"),
     Suite("aes128-gcm@openssh.com", "none",
           "none", "hmac-sha2-256-etm@openssh.com", "zlib"),
     Suite("aes128-ctr", "none", "aes128-gcm@openssh.com", "none", "none"),
     Suite("aes128-gcm@openssh.com", "hmac-sha2-256-etm@openssh.com",
           "none", "hmac-sha2-256", "zlib@openssh.com")}

\* what a peer may have put in its KEXINIT next to the algorithm names
ExtInfoValues == {None, Str("ext-info-c")}

\* _cipher_info and _mac_info once a NoneCipherTransport was constructed
RegisteredCipherInfo == Update(BaseCipherInfo, "none", NoneCipherInfo)
RegisteredMacInfo == Update(BaseMacInfo, "none", NoneMacInfo)

NeverActivated ==
    [path |-> "never", cipher |-> "", mac |-> "", strict |-> FALSE,
     rekey |-> FALSE, ext_info |-> None, authenticated |-> FALSE,
     calls |-> <<>>, super_calls |-> <<>>]

InitRegistry ==
    /\ cipher_info = RegisteredCipherInfo
    /\ mac_info = RegisteredMacInfo

InitNoSessions ==
    /\ sessions = <<>>
    /\ peer = <<>>
    /\ agreed = <<>>

\* the link before anything was sent over it
InitLink ==
    /\ wire = <<>>
    /\ tx_log = <<>>
    /\ rx_log = <<>>
    /\ rx_error = ""
    /\ tampered = FALSE
    /\ side = "sender"

\* handle_connection was just started, main of the client just connected
InitDemo ==
    /\ srv = [pc |-> "construct", transport |-> "unset", socket |-> "open",
                 event |-> FALSE, chan |-> FALSE, sent |-> <<>>, exit |-> ""]
    /\ cli = [pc |-> "construct", transport |-> "unset", socket |-> "open",
                 authenticated |-> FALSE, chan |-> FALSE, received |-> None,
                 exit_status |-> None, log |-> {}, exit |-> ""]
    /\ channel = [opened |-> FALSE, in_buffer |-> <<>>, exit_status |-> None,
                  eof |-> FALSE, closed |-> FALSE]
    /\ network = <<>>

\* the server accepted no connection yet
InitHandlers ==
    /\ handlers = <<>>
    /\ events = {}

InitTransport ==
    /\ server_mode \in BOOLEAN
    /\ server_sig_algs = TRUE
    /\ negotiated = Suite("", "", "", "", "")
    /\ agreed_on_strict_kex = FALSE
    /\ remote_ext_info = None
    /\ authenticated = FALSE
    /\ in_kex = FALSE
    /\ expected_packet = {}
    /\ channels = {}
    /\ packetizer = [in |-> InitialDirection, out |-> InitialDirection,
                     need_rekey |-> FALSE, init_count |-> 0]
    /\ phase = "idle"
    /\ kex_count = 0
    /\ last = [in |-> NeverActivated, out |-> NeverActivated]
    /\ ext_info_sent = [null |-> 0, standard |-> 0]

\* both KEXINITs were exchanged and parsed: the algorithms are agreed
KexInit(suite, strict, ext) ==
    /\ phase = "idle"
    /\ kex_count < MaxKex
    /\ negotiated' = suite
    /\ agreed_on_strict_kex' = IF kex_count = 0 THEN strict ELSE agreed_on_strict_kex
    /\ remote_ext_info' = ext
    /\ in_kex' = TRUE
    /\ phase' = "kex"
    /\ UNCHANGED <<server_mode, server_sig_algs, authenticated, expected_packet,
                   channels, packetizer, kex_count, last, ext_info_sent>>
    /\ UNCHANGED <<rvars, pvars, lvars, dvars, cvars>>

\* a variant that sends the extension-info message before the reset
NullOutboundSeqnoExtBeforeReset(n) ==
    LET sent == IF SendsExtInfo THEN NextSeqno(NextSeqno(n)) ELSE NextSeqno(n)
    IN  IF agreed_on_strict_kex THEN 0 ELSE sent

\* a variant that resets the outbound sequence number in every mode
NullOutboundSeqnoAlwaysReset(n) ==
    IF SendsExtInfo THEN NextSeqno(0) ELSE 0

\* the outbound sequence number the null-aware path leaves: NEWKEYS is sent,
\* then the reset in strict mode, then the extension-info message
NullOutboundSeqno(n) ==
    LET sent == NextSeqno(n)
        reset == IF agreed_on_strict_kex THEN 0 ELSE sent
    IN  IF SendsExtInfo THEN NextSeqno(reset) ELSE reset

\* a variant that restarts the inbound sequence number in every mode
NullInboundSeqnoAlwaysReset(n) == 0

\* the inbound sequence number the null-aware path leaves, n being the
\* number after NEWKEYS was read
NullInboundSeqno(n) == IF agreed_on_strict_kex THEN 0 ELSE n

\* the same for the standard activation sequence
StandardOutboundSeqno(n) ==
    LET reset == IF StandardOutbound.reset THEN 0 ELSE NextSeqno(n)
    IN  IF StandardOutbound.ext_info THEN NextSeqno(reset) ELSE reset

StandardInboundSeqno(n) == IF StandardInbound.reset THEN 0 ELSE n

\* the Packetizer as the null-aware branch of _activate_outbound leaves it
NullOutboundPacketizer ==
    Activated("out", 1, NullOutbound, NullOutboundSeqno(packetizer.out.seqno))

\* a variant whose strict-mode reset hits the outbound sequence number too
NullInboundPacketizerResetsOut ==
    [Activated("in", 2, NullInbound,
               NullInboundSeqno(NextSeqno(packetizer["in"].seqno)))
        EXCEPT !.out.seqno = IF agreed_on_strict_kex THEN 0 ELSE @]

\* the Packetizer as the null-aware branch of _activate_inbound leaves it
NullInboundPacketizer ==
    Activated("in", 2, NullInbound,
              NullInboundSeqno(NextSeqno(packetizer["in"].seqno)))

StandardOutboundPacketizer ==
    Activated("out", 1, StandardOutbound,
              StandardOutboundSeqno(packetizer.out.seqno))

StandardInboundPacketizer ==
    Activated("in", 2, StandardInbound,
              StandardInboundSeqno(NextSeqno(packetizer["in"].seqno)))

Snapshot(path, cipher, mac, calls, super_calls) ==
    [path |-> path, cipher |-> cipher, mac |-> mac,
     strict |-> agreed_on_strict_kex, rekey |-> kex_count > 0,
     ext_info |-> remote_ext_info, authenticated |-> authenticated,
     calls |-> calls, super_calls |-> super_calls]

\* a variant that leaves the set of expected packets empty
NullOutboundExpectsNothing == {}

\* self._expect_packet(MSG_NEWKEYS), the last call of the null-aware branch
NullOutboundExpects == {"NEWKEYS"}

\* the same in the standard activation sequence
StandardOutboundExpects == {"NEWKEYS"}

\* the transport's read loop takes a packet of this type: nothing is
\* expected, or this type is
Accepts(ptype) == expected_packet = {} \/ ptype \in expected_packet

\* the key exchange produced K and H: _activate_outbound runs
ActivateOutbound ==
    /\ phase = "kex"
    /\ LET null == OutboundNeedsNone
           act == IF null THEN NullOutbound ELSE StandardOutbound
           path == IF null THEN "null" ELSE "standard"
           after == IF null THEN NullOutboundPacketizer
                    ELSE StandardOutboundPacketizer
       IN  /\ packetizer' = after
           /\ in_kex' = IF ~after.need_rekey THEN FALSE ELSE in_kex
           /\ expected_packet' = IF null THEN NullOutboundExpects
                                ELSE StandardOutboundExpects
           /\ ext_info_sent' = IF act.ext_info
                               THEN [ext_info_sent EXCEPT ![path] = @ + 1]
                               ELSE ext_info_sent
           /\ last' = [last EXCEPT !.out =
                 Snapshot(path, negotiated.local_cipher, negotiated.local_mac,
                          IF null THEN act.calls
                          ELSE <<Call("super._activate_outbound", "")>>,
                          IF null THEN <<>> ELSE act.calls)]
    /\ phase' = "newkeys_sent"
    /\ UNCHANGED <<server_mode, server_sig_algs, negotiated, agreed_on_strict_kex,
                   remote_ext_info, authenticated, channels, kex_count>>
    /\ UNCHANGED <<rvars, pvars, lvars, dvars, cvars>>

\* the peer's NEWKEYS is read: _parse_newkeys runs _activate_inbound
ActivateInbound ==
    /\ phase = "newkeys_sent"
    /\ Accepts("NEWKEYS")
    /\ LET null == InboundNeedsNone
           act == IF null THEN NullInbound ELSE StandardInbound
           path == IF null THEN "null" ELSE "standard"
           after == IF null THEN NullInboundPacketizer
                    ELSE StandardInboundPacketizer
       IN  /\ packetizer' = after
           /\ in_kex' = IF ~after.need_rekey THEN FALSE ELSE in_kex
           /\ last' = [last EXCEPT !["in"] =
                 Snapshot(path, negotiated.remote_cipher, negotiated.remote_mac,
                          IF null THEN act.calls
                          ELSE <<Call("super._activate_inbound", "")>>,
                          IF null THEN <<>> ELSE act.calls)]
    /\ expected_packet' = {}
    /\ phase' = "idle"
    /\ kex_count' = kex_count + 1
    /\ UNCHANGED <<server_mode, server_sig_algs, negotiated, agreed_on_strict_kex,
                   remote_ext_info, authenticated, channels, ext_info_sent>>
    /\ UNCHANGED <<rvars, pvars, lvars, dvars, cvars>>

\* a packet other than NEWKEYS is sent
SendMessage ==
    /\ phase = "idle"
    /\ kex_count > 0
    /\ packetizer' = [packetizer EXCEPT !.out.seqno = NextSeqno(@)]
    /\ UNCHANGED <<server_mode, server_sig_algs, negotiated, agreed_on_strict_kex,
                   remote_ext_info, authenticated, in_kex, expected_packet,
                   channels, phase, kex_count, last, ext_info_sent>>
    /\ UNCHANGED <<rvars, pvars, lvars, dvars, cvars>>

\* a packet other than NEWKEYS is read: only once the key exchange messages
\* are through and no particular packet is expected
ReadMessage ==
    /\ phase # "kex"
    /\ expected_packet = {}
    /\ kex_count > 0
    /\ packetizer' = [packetizer EXCEPT !["in"].seqno = NextSeqno(@)]
    /\ UNCHANGED <<server_mode, server_sig_algs, negotiated, agreed_on_strict_kex,
                   remote_ext_info, authenticated, in_kex, expected_packet,
                   channels, phase, kex_count, last, ext_info_sent>>
    /\ UNCHANGED <<rvars, pvars, lvars, dvars, cvars>>

\* the Packetizer's byte or packet threshold is exceeded by channel data
RekeyNeeded ==
    /\ phase = "idle"
    /\ channels # {}
    /\ ~packetizer.need_rekey
    /\ packetizer' = [packetizer EXCEPT !.need_rekey = TRUE]
    /\ UNCHANGED <<server_mode, server_sig_algs, negotiated, agreed_on_strict_kex,
                   remote_ext_info, authenticated, in_kex, expected_packet,
                   channels, phase, kex_count, last, ext_info_sent>>
    /\ UNCHANGED <<rvars, pvars, lvars, dvars, cvars>>

\* "none" authentication succeeds
AuthNone ==
    /\ phase = "idle"
    /\ kex_count > 0
    /\ ~authenticated
    /\ authenticated' = TRUE
    /\ UNCHANGED <<server_mode, server_sig_algs, negotiated, agreed_on_strict_kex,
                   remote_ext_info, in_kex, expected_packet, channels,
                   packetizer, phase, kex_count, last, ext_info_sent>>
    /\ UNCHANGED <<rvars, pvars, lvars, dvars, cvars>>

\* a session channel is opened
OpenSession ==
    /\ phase = "idle"
    /\ authenticated
    /\ Cardinality(channels) < MaxChannels
    /\ channels' = channels \cup {Cardinality(channels) + 1}
    /\ UNCHANGED <<server_mode, server_sig_algs, negotiated, agreed_on_strict_kex,
                   remote_ext_info, authenticated, in_kex, expected_packet,
                   packetizer, phase, kex_count, last, ext_info_sent>>
    /\ UNCHANGED <<rvars, pvars, lvars, dvars, cvars>>

-----------------------------------------------------------------------------
(* Sessions of one process: construction, preference lists, negotiation *)

\* concurrent sessions (connections) of the process
MaxSessions == 2

SessionIds == 1..MaxSessions

\* paramiko.Transport._preferred_ciphers and _preferred_macs, the class defaults
ClassPreferredCiphers == <<"aes128-ctr", "aes128-gcm@openssh.com">>
ClassPreferredMacs == <<"hmac-sha2-256", "hmac-sha2-256-etm@openssh.com">>

\* a variant that puts "none" last
NoneLast(preferred) ==
    SelectSeq(preferred, LAMBDA c : c # "none") \o <<"none">>

\* a variant that replaces the table by the "none" entry
ReplaceByNoneCipher(table) == "none" :> NoneCipherInfo

\* tuple(self.preferred_ciphers) + ('none',)
AppendNone(preferred) == preferred \o <<"none">>

\* ('none',) + tuple(c for c in transport.preferred_ciphers if c != 'none')
NoneFirst(preferred) ==
    <<"none">> \o SelectSeq(preferred, LAMBDA c : c # "none")

\* the entries NoneCipherTransport.__init__ puts in the process-wide tables
RegisterNoneCipher(table) == Update(table, "none", NoneCipherInfo)
RegisterNoneMac(table) == Update(table, "none", NoneMacInfo)

\* a peer may offer a cipher this build does not list
PeerCipherNames == CipherNames \cup {"3des-cbc"}

\* duplicate-free, non-empty lists of at most MaxPrefLen of the given names
PrefLists(names) ==
    {l \in UNION {[1..n -> names] : n \in 1..MaxPrefLen} :
        \A i, j \in DOMAIN l : i # j => l[i] # l[j]}

NoSession == [pc |-> "new", preferred_ciphers |-> <<>>, preferred_macs |-> <<>>]

Pending ==
    [status |-> "pending", stage |-> "", local_cipher |-> "",
     remote_cipher |-> "", local_mac |-> "", remote_mac |-> ""]

InitSessions ==
    /\ sessions = [s \in SessionIds |-> NoSession]
    /\ peer \in [ciphers : PrefLists(PeerCipherNames), macs : PrefLists(MacNames)]
    /\ agreed = [s \in SessionIds |-> Pending]
    /\ cipher_info = BaseCipherInfo
    /\ mac_info = BaseMacInfo

\* NoneCipherTransport.__init__
Construct(s) ==
    /\ sessions[s].pc = "new"
    /\ sessions' = [sessions EXCEPT ![s] =
            [pc |-> "constructed",
             preferred_ciphers |-> AppendNone(ClassPreferredCiphers),
             preferred_macs |-> AppendNone(ClassPreferredMacs)]]
    /\ cipher_info' = RegisterNoneCipher(cipher_info)
    /\ mac_info' = RegisterNoneMac(mac_info)
    /\ UNCHANGED <<peer, agreed, tvars, lvars, dvars, cvars>>

\* transport._preferred_ciphers = ('none',) + ...
PreferNoneCipher(s) ==
    /\ sessions[s].pc = "constructed"
    /\ sessions' = [sessions EXCEPT
            ![s].pc = "cipher_first",
            ![s].preferred_ciphers = NoneFirst(@)]
    /\ UNCHANGED <<peer, agreed, rvars, tvars, lvars, dvars, cvars>>

\* transport._preferred_macs = ('none',) + ...
PreferNoneMac(s) ==
    /\ sessions[s].pc = "cipher_first"
    /\ sessions' = [sessions EXCEPT
            ![s].pc = "ready",
            ![s].preferred_macs = NoneFirst(@)]
    /\ UNCHANGED <<peer, agreed, rvars, tvars, lvars, dvars, cvars>>

\* the first name of the client's list that the server's list holds too
FirstMutual(client, server) ==
    LET mutual == SelectSeq(client, LAMBDA a : \E i \in DOMAIN server : server[i] = a)
    IN  IF mutual = <<>> THEN "" ELSE Head(mutual)

\* the agreement for one category: the client's list decides, in both directions
Agree(own, theirs) ==
    IF server_mode THEN FirstMutual(theirs, own) ELSE FirstMutual(own, theirs)

\* start_client / start_server: the KEXINITs are exchanged and parsed
Negotiate(s) ==
    /\ sessions[s].pc \in {"constructed", "cipher_first", "ready"}
    /\ LET cipher == Agree(sessions[s].preferred_ciphers, peer.ciphers)
           mac == Agree(sessions[s].preferred_macs, peer.macs)
       IN  agreed' = [agreed EXCEPT ![s] =
               IF cipher = "" \/ mac = ""
               THEN [Pending EXCEPT !.status = "ProtocolError",
                                    !.stage = sessions[s].pc]
               ELSE [status |-> "agreed", stage |-> sessions[s].pc,
                     local_cipher |-> cipher, remote_cipher |-> cipher,
                     local_mac |-> mac, remote_mac |-> mac]]
    /\ sessions' = [sessions EXCEPT ![s].pc = "started"]
    /\ UNCHANGED <<peer, rvars, tvars, lvars, dvars, cvars>>

NextSessions ==
    \E s \in SessionIds :
        \/ Construct(s)
        \/ PreferNoneCipher(s)
        \/ PreferNoneMac(s)
        \/ Negotiate(s)

-----------------------------------------------------------------------------
(* The server process: main accepts connections, one handler thread each *)

\* host_key = paramiko.RSAKey.generate(SERVER_KEY_BITS), made once at import
HostKey == [t |-> "RSAKey", owner |-> "module"]

\* the connections accepted so far
Accepted == DOMAIN handlers

\* handle_connection was started for a connection and holds nothing yet
NewHandlerThread(n) ==
    [pc |-> "construct", thread |-> n, socket |-> n, transport |-> 0,
     server_key |-> None, handler |-> 0, event |-> 0, authed |-> FALSE,
     exit |-> ""]

\* client_sock, client_addr = server_socket.accept(); a thread is started
\* on handle_connection with that socket
Accept ==
    /\ Len(handlers) < MaxSessions
    /\ handlers' = Append(handlers, NewHandlerThread(Len(handlers) + 1))
    /\ UNCHANGED <<events, tvars, rvars, pvars, lvars, dvars>>

\* transport = NoneCipherTransport(client_socket) and the two preference
\* assignments, in the thread of connection s
HandlerConstruct(s) == s \in Accepted /\ Construct(s)
HandlerPreferNoneCipher(s) == s \in Accepted /\ PreferNoneCipher(s)
HandlerPreferNoneMac(s) == s \in Accepted /\ PreferNoneMac(s)

\* transport.add_server_key(host_key): the thread's transport, the module's key
AddServerKey(s) ==
    /\ s \in Accepted
    /\ handlers[s].pc = "construct"
    /\ sessions[s].pc = "ready"
    /\ handlers' = [handlers EXCEPT ![s].pc = "server_handler",
                                    ![s].transport = s,
                                    ![s].server_key = HostKey]
    /\ UNCHANGED <<events, tvars, rvars, pvars, lvars, dvars>>

\* a variant in which every thread uses the event of the first handler
NewEventShared(s) == 1

\* self.event = threading.Event(), in AllowAllServer.__init__: a new object
NewEvent(s) == s

\* server_handler = AllowAllServer()
CreateHandler(s) ==
    /\ s \in Accepted
    /\ handlers[s].pc = "server_handler"
    /\ handlers' = [handlers EXCEPT ![s].pc = "start_server",
                                    ![s].handler = s,
                                    ![s].event = NewEvent(s)]
    /\ UNCHANGED <<events, tvars, rvars, pvars, lvars, dvars>>

\* transport.start_server(server=server_handler)
StartServer(s) ==
    /\ s \in Accepted
    /\ handlers[s].pc = "start_server"
    /\ Negotiate(s)

\* check_auth_none, called on the handler of connection s by that
\* connection's transport: self.event.set()
CheckAuthNone(s) ==
    /\ s \in Accepted
    /\ handlers[s].pc = "start_server"
    /\ sessions[s].pc = "started"
    /\ agreed[s].status = "agreed"
    /\ ~handlers[s].authed
    /\ handlers' = [handlers EXCEPT ![s].authed = TRUE]
    /\ events' = events \cup {handlers[s].event}
    /\ UNCHANGED <<tvars, rvars, pvars, lvars, dvars>>

\* start_server returned or raised; server_handler.event.wait(10)
WaitAuth(s) ==
    /\ s \in Accepted
    /\ handlers[s].pc = "start_server"
    /\ sessions[s].pc = "started"
    /\ handlers' = [handlers EXCEPT ![s] =
            IF agreed[s].status # "agreed"
            THEN [@ EXCEPT !.pc = "done", !.exit = "negotiation"]
            ELSE IF handlers[s].event \in events
            THEN [@ EXCEPT !.pc = "serving"]
            ELSE [@ EXCEPT !.pc = "done", !.exit = "auth_timeout"]]
    /\ UNCHANGED <<events, tvars, rvars, pvars, lvars, dvars>>

\* the channel is served and the handler returns
Serve(s) ==
    /\ s \in Accepted
    /\ handlers[s].pc = "serving"
    /\ handlers' = [handlers EXCEPT ![s].pc = "done", ![s].exit = "normal"]
    /\ UNCHANGED <<events, tvars, rvars, pvars, lvars, dvars>>

NextServer ==
    \/ Accept
    \/ \E s \in SessionIds :
          \/ HandlerConstruct(s)
          \/ HandlerPreferNoneCipher(s)
          \/ HandlerPreferNoneMac(s)
          \/ AddServerKey(s)
          \/ CreateHandler(s)
          \/ StartServer(s)
          \/ CheckAuthNone(s)
          \/ WaitAuth(s)
          \/ Serve(s)

\* the clients that connect: one that lists "none", one that does not, one
\* that shares no cipher with the server
ClientOffers ==
    {[ciphers |-> <<"none", "aes128-ctr">>, macs |-> <<"none", "hmac-sha2-256">>],
     [ciphers |-> <<"aes128-ctr">>, macs |-> <<"hmac-sha2-256">>],
     [ciphers |-> <<"3des-cbc">>, macs |-> <<"hmac-sha2-256">>]}

InitServer ==
    /\ InitTransport
    /\ server_mode
    /\ InitSessions
    /\ peer \in ClientOffers
    /\ InitLink /\ InitDemo /\ InitHandlers

SpecServer == InitServer /\ [][NextServer]_vars

-----------------------------------------------------------------------------
(* The activation methods called a second time for the same key exchange *)

\* the calls one run of the activation method of a direction makes
CallsOf(dir) ==
    IF dir = "in"
    THEN (IF InboundNeedsNone THEN NullInbound.calls
          ELSE <<Call("super._activate_inbound", "")>>)
    ELSE (IF OutboundNeedsNone THEN NullOutbound.calls
          ELSE <<Call("super._activate_outbound", "")>>)

\* the direction was activated exactly once for the key exchange that just
\* completed
ActivatedOnce(dir) ==
    /\ phase = "idle"
    /\ kex_count > 0
    /\ last[dir].calls = CallsOf(dir)

\* _activate_inbound runs again with the same K, H and algorithms
ReactivateInbound ==
    /\ ActivatedOnce("in")
    /\ LET null == InboundNeedsNone
           act == IF null THEN NullInbound ELSE StandardInbound
           seqno == IF null THEN NullInboundSeqno(packetizer["in"].seqno)
                    ELSE StandardInboundSeqno(packetizer["in"].seqno)
       IN  packetizer' = Activated("in", 2, act, seqno)
    /\ last' = [last EXCEPT !["in"].calls = @ \o CallsOf("in")]
    /\ UNCHANGED <<server_mode, server_sig_algs, negotiated, agreed_on_strict_kex,
                   remote_ext_info, authenticated, in_kex, expected_packet,
                   channels, phase, kex_count, ext_info_sent>>
    /\ UNCHANGED <<rvars, pvars, lvars, dvars, cvars>>

\* _activate_outbound runs again with the same K, H and algorithms
ReactivateOutbound ==
    /\ ActivatedOnce("out")
    /\ LET null == OutboundNeedsNone
           act == IF null THEN NullOutbound ELSE StandardOutbound
           path == IF null THEN "null" ELSE "standard"
           after == IF null THEN NullOutboundPacketizer
                    ELSE StandardOutboundPacketizer
       IN  /\ packetizer' = after
           /\ in_kex' = IF ~after.need_rekey THEN FALSE ELSE in_kex
           /\ expected_packet' = IF null THEN NullOutboundExpects
                                ELSE StandardOutboundExpects
           /\ ext_info_sent' = IF act.ext_info
                               THEN [ext_info_sent EXCEPT ![path] = @ + 1]
                               ELSE ext_info_sent
    /\ last' = [last EXCEPT !.out.calls = @ \o CallsOf("out")]
    /\ UNCHANGED <<server_mode, server_sig_algs, negotiated, agreed_on_strict_kex,
                   remote_ext_info, authenticated, channels, phase, kex_count>>
    /\ UNCHANGED <<rvars, pvars, lvars, dvars, cvars>>

NextReactivate ==
    \/ \E suite \in Suites, strict \in BOOLEAN, ext \in ExtInfoValues :
          KexInit(suite, strict, ext)
    \/ ActivateOutbound
    \/ ActivateInbound
    \/ SendMessage
    \/ ReadMessage
    \/ AuthNone
    \/ ReactivateInbound
    \/ ReactivateOutbound

InitOnce ==
    InitTransport /\ InitRegistry /\ InitNoSessions /\ InitLink /\ InitDemo /\ InitHandlers

SpecReactivate == InitOnce /\ [][NextReactivate]_vars

InitProcess ==
    InitTransport /\ InitSessions /\ InitLink /\ InitDemo /\ InitHandlers

SpecSessions == InitProcess /\ [][NextSessions]_vars

NextTransport ==
    \/ \E suite \in Suites, strict \in BOOLEAN, ext \in ExtInfoValues :
          KexInit(suite, strict, ext)
    \/ ActivateOutbound
    \/ ActivateInbound
    \/ SendMessage
    \/ ReadMessage
    \/ RekeyNeeded
    \/ AuthNone
    \/ OpenSession

Init ==
    InitTransport /\ InitRegistry /\ InitNoSessions /\ InitLink /\ InitDemo /\ InitHandlers

Next == NextTransport

Spec == Init /\ [][Next]_vars

-----------------------------------------------------------------------------
(* One direction of a connection: the sender's outbound half (packetizer.out), *)
(* the peer's inbound half (packetizer.in) and the packets between them.  The  *)
(* peer runs the same code in the other mode; server_mode and negotiated are   *)
(* those of the endpoint named by side.                                        *)

\* longest payload, in bytes
MaxPayloadLen == 1
\* payloads handed to send over the life of the link
MaxSent == 2

Bytes == {0, 1}

\* application payloads, the empty one included
Payloads ==
    {[t |-> "data", bytes |-> b] :
        b \in UNION {[1..n -> Bytes] : n \in 0..MaxPayloadLen}}

\* the compressor and the decompressor of zlib
Compress(data) == [t |-> "zlib", bytes |-> data.bytes]
Decompress(data) ==
    IF data.t = "zlib" THEN [t |-> "data", bytes |-> data.bytes]
    ELSE [t |-> "error", bytes |-> <<>>]

\* padding that brings length field, padding-length byte and data to a
\* multiple of the block size, at least 4 bytes of it
PaddingLength(len, block_size) ==
    LET short == block_size - ((len + 5) % block_size)
    IN  IF short < 4 THEN short + block_size ELSE short

\* [length][padding_length][payload][padding]
BuildPacket(data, block_size) ==
    [t |-> "packet", padding |-> PaddingLength(Len(data.bytes), block_size),
     data |-> data]

WellFramed(x, block_size) ==
    /\ x.t = "packet"
    /\ x.padding >= 4
    /\ (Len(x.data.bytes) + 5 + x.padding) % block_size = 0

\* the cipher engine applied to a packet; a null engine transforms nothing
Encrypt(engine, packet) ==
    IF engine = None THEN packet
    ELSE [t |-> "ciphertext", name |-> engine.name, key |-> engine.key,
          iv |-> engine.iv, packet |-> packet]

Decrypt(engine, x) ==
    IF engine = None THEN x
    ELSE IF /\ x.t = "ciphertext"
            /\ x.name = engine.name
            /\ x.key = engine.key
            /\ x.iv = engine.iv
         THEN x.packet
         ELSE [t |-> "garbage"]

\* the MAC over sequence number and packet, cut to the MAC size
ComputeHmac(key, engine, seqno, input, size) ==
    [t |-> "mac", key |-> key, engine |-> engine, seqno |-> seqno,
     over |-> input, size |-> size]

\* the tag an AEAD cipher appends
Tag(engine, packet) ==
    [t |-> "tag", key |-> engine.key, iv |-> engine.iv, over |-> packet]

\* Packetizer.send: compress, frame, encrypt, append MAC or tag
SendPacket(tx, payload) ==
    LET c == tx.cipher
        data == IF tx.compressor # None THEN Compress(payload) ELSE payload
        packet == BuildPacket(data, c.block_size)
        out == Encrypt(c.block_engine, packet)
        mac == IF c.aead THEN Tag(c.block_engine, packet)
               ELSE IF c.mac_engine # None
                    THEN ComputeHmac(c.mac_key, c.mac_engine, tx.seqno,
                                     IF c.etm THEN out ELSE packet, c.mac_size)
                    ELSE None
    IN  [body |-> out, mac |-> mac, altered |-> ""]

\* Packetizer.receive: verify MAC or tag, decrypt, deframe, decompress
ReadPacket(rx, pkt) ==
    LET c == rx.cipher
        plain == Decrypt(c.block_engine, pkt.body)
        expected ==
            IF c.aead THEN Tag(c.block_engine, plain)
            ELSE IF c.mac_engine # None
                 THEN ComputeHmac(c.mac_key, c.mac_engine, rx.seqno,
                                  IF c.etm THEN pkt.body ELSE plain, c.mac_size)
                 ELSE None
        checked == c.aead \/ c.mac_engine # None
        data == IF rx.compressor # None THEN Decompress(plain.data)
                ELSE plain.data
    IN  IF checked /\ pkt.mac # expected
        THEN [error |-> "IntegrityError", payload |-> None]
        ELSE IF pkt.mac # expected \/ ~WellFramed(plain, c.block_size)
        THEN [error |-> "ProtocolError", payload |-> None]
        ELSE IF data.t = "error"
        THEN [error |-> "ProtocolError", payload |-> None]
        ELSE [error |-> "", payload |-> data]

\* a byte of the payload changed in transit; a stream cipher and the
\* compressor carry the change through to the payload
FlipData(data) == [data EXCEPT !.bytes = [@ EXCEPT ![1] = 1 - @]]
FlipPacket(packet) == [packet EXCEPT !.data = FlipData(@)]
FlipBody(body) ==
    IF body.t = "ciphertext" THEN [body EXCEPT !.packet = FlipPacket(@)]
    ELSE FlipPacket(body)
PayloadBytes(body) ==
    IF body.t = "ciphertext" THEN body.packet.data.bytes ELSE body.data.bytes

\* a byte of the MAC or tag changed in transit
FlipMac(mac) == [t |-> "altered", of |-> mac]

\* the negotiation as the peer holds it: its remote names are our local ones
Mirror(suite) ==
    [local_cipher |-> suite.remote_cipher, local_mac |-> suite.remote_mac,
     remote_cipher |-> suite.local_cipher, remote_mac |-> suite.local_mac,
     local_compression |-> suite.remote_compression,
     remote_compression |-> suite.local_compression]

LinkSuites == Suites \cup {Mirror(suite) : suite \in Suites}

\* the sender starts a key exchange once the link is drained
LinkKexInit(suite, strict) ==
    /\ side = "sender"
    /\ wire = <<>>
    /\ rx_error = ""
    /\ KexInit(suite, strict, None)

\* the sender activates its outbound half
LinkActivateOutbound ==
    /\ side = "sender"
    /\ ActivateOutbound

\* the sender's NEWKEYS reaches the peer
NewkeysArrives ==
    /\ phase = "newkeys_sent"
    /\ side = "sender"
    /\ side' = "receiver"
    /\ server_mode' = ~server_mode
    /\ negotiated' = Mirror(negotiated)
    /\ UNCHANGED <<server_sig_algs, agreed_on_strict_kex, remote_ext_info,
                   authenticated, in_kex, expected_packet, channels,
                   packetizer, phase, kex_count, last, ext_info_sent>>
    /\ UNCHANGED <<wire, tx_log, rx_log, rx_error, tampered>>
    /\ UNCHANGED <<rvars, pvars, dvars, cvars>>

\* the peer activates its inbound half
LinkActivateInbound ==
    /\ side = "receiver"
    /\ ActivateInbound

\* both halves are activated: the sender goes on
BackToSender ==
    /\ phase = "idle"
    /\ side = "receiver"
    /\ side' = "sender"
    /\ server_mode' = ~server_mode
    /\ negotiated' = Mirror(negotiated)
    /\ UNCHANGED <<server_sig_algs, agreed_on_strict_kex, remote_ext_info,
                   authenticated, in_kex, expected_packet, channels,
                   packetizer, phase, kex_count, last, ext_info_sent>>
    /\ UNCHANGED <<wire, tx_log, rx_log, rx_error, tampered>>
    /\ UNCHANGED <<rvars, pvars, dvars, cvars>>

\* send(payload) on the sender
LinkSend(payload) ==
    /\ phase = "idle"
    /\ kex_count > 0
    /\ rx_error = ""
    /\ Len(tx_log) < MaxSent
    /\ wire' = Append(wire, SendPacket(packetizer.out, payload))
    /\ tx_log' = Append(tx_log, payload)
    /\ packetizer' = [packetizer EXCEPT !.out.seqno = NextSeqno(@)]
    /\ UNCHANGED <<server_mode, server_sig_algs, negotiated, agreed_on_strict_kex,
                   remote_ext_info, authenticated, in_kex, expected_packet,
                   channels, phase, kex_count, last, ext_info_sent>>
    /\ UNCHANGED <<rx_log, rx_error, tampered, side>>
    /\ UNCHANGED <<rvars, pvars, dvars, cvars>>

\* receive() on the peer
LinkReceive ==
    /\ phase = "idle"
    /\ rx_error = ""
    /\ wire # <<>>
    /\ LET r == ReadPacket(packetizer["in"], Head(wire))
       IN  /\ rx_error' = r.error
           /\ rx_log' = IF r.error = "" THEN Append(rx_log, r.payload) ELSE rx_log
    /\ wire' = Tail(wire)
    /\ packetizer' = [packetizer EXCEPT !["in"].seqno = NextSeqno(@)]
    /\ UNCHANGED <<server_mode, server_sig_algs, negotiated, agreed_on_strict_kex,
                   remote_ext_info, authenticated, in_kex, expected_packet,
                   channels, phase, kex_count, last, ext_info_sent>>
    /\ UNCHANGED <<tx_log, tampered, side>>
    /\ UNCHANGED <<rvars, pvars, dvars, cvars>>

\* one byte of a packet in flight is changed
Tamper(i, what) ==
    /\ ~tampered
    /\ i \in DOMAIN wire
    /\ \/ /\ what = "payload"
          /\ PayloadBytes(wire[i].body) # <<>>
          /\ wire' = [wire EXCEPT ![i].body = FlipBody(@),
                                  ![i].altered = "payload"]
       \/ /\ what = "mac"
          /\ wire[i].mac # None
          /\ wire' = [wire EXCEPT ![i].mac = FlipMac(@),
                                  ![i].altered = "mac"]
    /\ tampered' = TRUE
    /\ UNCHANGED <<tx_log, rx_log, rx_error, side>>
    /\ UNCHANGED <<tvars, rvars, pvars, dvars, cvars>>

NextLink ==
    \/ \E suite \in LinkSuites, strict \in BOOLEAN : LinkKexInit(suite, strict)
    \/ LinkActivateOutbound
    \/ NewkeysArrives
    \/ LinkActivateInbound
    \/ BackToSender
    \/ AuthNone
    \/ \E payload \in Payloads : LinkSend(payload)
    \/ LinkReceive
    \/ \E i \in 1..MaxSent, what \in {"payload", "mac"} : Tamper(i, what)

InitEndpoints ==
    InitTransport /\ InitRegistry /\ InitNoSessions /\ InitLink /\ InitDemo /\ InitHandlers

SpecLink == InitEndpoints /\ [][NextLink]_vars

-----------------------------------------------------------------------------
(* The demo run: handle_connection of src/ssh_server.py and main of             *)
(* src/ssh_client.py on one connection                                        *)

\* message = b"Hello World from Paramiko Server!\n"
Message ==
    <<72, 101, 108, 108, 111, 32, 87, 111, 114, 108, 100, 32, 102,
      114, 111, 109, 32, 80, 97, 114, 97, 109, 105, 107, 111, 32, 83,
      101, 114, 118, 101, 114, 33, 10>>

\* channel.send_exit_status(0)
ExitStatus == 0

\* channel.recv(1024)
RecvLimit == 1024

\* a Python int held where None may be held too
PyInt(v) == [t |-> "int", v |-> v]

\* a Python bytes object
Data(bytes) == [t |-> "data", bytes |-> bytes]

\* what negotiation gives between two peers that list "none" first, and with
\* a peer that does not offer "none"
DemoSuites ==
    {Suite("none", "none", "none", "none", "none"),
     Suite("aes128-ctr", "hmac-sha2-256", "aes128-ctr", "hmac-sha2-256", "none")}

DemoUnchanged == UNCHANGED <<rvars, pvars, lvars, cvars>>

\* handle_connection up to the creation of the server handler
ServerConstruct(ok) ==
    /\ srv.pc = "construct"
    /\ srv' = IF ok
                 THEN [srv EXCEPT !.pc = "start_server",
                                     !.transport = "constructed"]
                 ELSE [srv EXCEPT !.pc = "finally", !.exit = "exception"]
    /\ UNCHANGED <<cli, channel, network, tvars>>
    /\ DemoUnchanged

\* main of the client up to set_gss_host
ClientConstruct(ok) ==
    /\ cli.pc = "construct"
    /\ cli' = IF ok
                 THEN [cli EXCEPT !.pc = "start_client",
                                     !.transport = "constructed"]
                 ELSE [cli EXCEPT !.pc = "finally", !.exit = "exception"]
    /\ UNCHANGED <<srv, channel, network, tvars>>
    /\ DemoUnchanged

\* transport.start_server on one side, transport.start_clientent on the other:
\* the negotiation completes, or fails leaving the transport running or not
StartSession(outcome, suite) ==
    /\ srv.pc = "start_server"
    /\ cli.pc = "start_client"
    /\ IF outcome = "ok"
       THEN /\ srv' = [srv EXCEPT !.pc = "wait_auth", !.transport = "active"]
            /\ cli' = [cli EXCEPT !.pc = "auth_none", !.transport = "active"]
            /\ negotiated' = suite
       ELSE /\ srv' = [srv EXCEPT
                    !.pc = "finally", !.exit = "negotiation",
                    !.transport = IF outcome = "failed_alive"
                                  THEN "active" ELSE "closed"]
            /\ cli' = [cli EXCEPT
                    !.pc = "finally", !.exit = "negotiation",
                    !.transport = IF outcome = "failed_alive"
                                  THEN "active" ELSE "closed"]
            /\ negotiated' = negotiated
    /\ UNCHANGED <<server_mode, server_sig_algs, agreed_on_strict_kex,
                   remote_ext_info, authenticated, in_kex, expected_packet,
                   channels, packetizer, phase, kex_count, last, ext_info_sent>>
    /\ UNCHANGED <<channel, network>>
    /\ DemoUnchanged

\* auth_timed_out = not server_handler.event.wait(10)
ServerWaitAuth ==
    /\ srv.pc = "wait_auth"
    /\ srv' = IF srv.event
                 THEN [srv EXCEPT !.pc = "accept"]
                 ELSE [srv EXCEPT !.pc = "finally", !.exit = "auth_timeout"]
    /\ UNCHANGED <<cli, channel, network, tvars>>
    /\ DemoUnchanged

\* channel = transport.accept(20)
ServerAccept ==
    /\ srv.pc = "accept"
    /\ srv' = IF channel.opened
                 THEN [srv EXCEPT !.pc = "sendall", !.chan = TRUE]
                 ELSE [srv EXCEPT !.pc = "finally", !.exit = "accept_timeout"]
    /\ UNCHANGED <<cli, channel, network, tvars>>
    /\ DemoUnchanged

\* one call on the channel: the message goes out, the handler moves on
ServerChannelOp(at, msg, next) ==
    /\ srv.pc = at
    /\ network' = Append(network, msg)
    /\ srv' = [srv EXCEPT !.pc = next, !.sent = Append(@, msg.type),
                                !.exit = IF next = "finally" THEN "normal" ELSE @]
    /\ UNCHANGED <<cli, channel, tvars>>
    /\ DemoUnchanged

\* channel.sendall(message)
ServerSendall ==
    ServerChannelOp("sendall", [type |-> "data", data |-> Message],
                    "send_exit_status")

\* a variant that signals EOF where the exit status belongs
ServerSendExitStatusAsEof ==
    ServerChannelOp("send_exit_status", [type |-> "eof"], "shutdown_write")

\* channel.send_exit_status(0)
ServerSendExitStatus ==
    ServerChannelOp("send_exit_status",
                    [type |-> "exit-status", status |-> ExitStatus],
                    "shutdown_write")

\* channel.shutdown_write()
ServerShutdownWrite ==
    ServerChannelOp("shutdown_write", [type |-> "eof"], "close")

\* channel.close()
ServerClose == ServerChannelOp("close", [type |-> "close"], "finally")

\* a variant whose cleanup leaves the transport as it is
ServerFinallyKeepsTransport ==
    /\ srv.pc = "finally"
    /\ srv' = [srv EXCEPT !.pc = "close_socket"]
    /\ UNCHANGED <<cli, channel, network, tvars>>
    /\ DemoUnchanged

\* finally: if 'transport' in locals() and transport.is_active(): transport.close()
ServerFinallyTransport ==
    /\ srv.pc = "finally"
    /\ IF srv.transport = "active"
       THEN /\ srv' = [srv EXCEPT !.pc = "close_socket",
                                        !.transport = "closed"]
            /\ network' = Append(network, [type |-> "disconnect"])
       ELSE /\ srv' = [srv EXCEPT !.pc = "close_socket"]
            /\ network' = network
    /\ UNCHANGED <<cli, channel, tvars>>
    /\ DemoUnchanged

\* finally: client_socket.close()
ServerCloseSocket ==
    /\ srv.pc = "close_socket"
    /\ srv' = [srv EXCEPT !.pc = "done", !.socket = "closed"]
    /\ UNCHANGED <<cli, channel, network, tvars>>
    /\ DemoUnchanged

\* where main goes after transport.auth_none(USERNAME): on, or to the return
\* of one of the except clauses
ClientAfterAuth(outcome) ==
    IF outcome \in {"ok", "partial"} THEN "check_auth" ELSE "finally"

\* transport.auth_none(USERNAME); on the server check_auth_none sets the event
ClientAuthNone(outcome) ==
    /\ cli.pc = "auth_none"
    /\ outcome = "ok" => srv.transport = "active"
    /\ cli' = [cli EXCEPT
            !.pc = ClientAfterAuth(outcome),
            !.authenticated = (outcome = "ok"),
            !.exit = IF ClientAfterAuth(outcome) = "finally"
                     THEN "auth_failed" ELSE @]
    /\ srv' = IF outcome = "ok" THEN [srv EXCEPT !.event = TRUE] ELSE srv
    /\ UNCHANGED <<channel, network, tvars>>
    /\ DemoUnchanged

\* a variant that takes the absence of an exception for success
IsAuthenticatedAssumed == TRUE

\* transport.is_authenticated()
IsAuthenticated == cli.authenticated

\* if not transport.is_authenticated(): return
ClientCheckAuth ==
    /\ cli.pc = "check_auth"
    /\ cli' = IF IsAuthenticated
              THEN [cli EXCEPT !.pc = "open_session"]
              ELSE [cli EXCEPT !.pc = "finally", !.exit = "not_authenticated"]
    /\ UNCHANGED <<srv, channel, network, tvars>>
    /\ DemoUnchanged

\* channel = transport.open_session(timeout=10); on the server
\* check_channel_request accepts a session channel
ClientOpenSession(outcome) ==
    /\ cli.pc = "open_session"
    /\ outcome = "ok" => srv.transport = "active" /\ cli.transport = "active"
    /\ IF outcome = "ok"
       THEN /\ cli' = [cli EXCEPT !.pc = "poll_ready", !.chan = TRUE]
            /\ channel' = [channel EXCEPT !.opened = TRUE]
       ELSE /\ cli' = [cli EXCEPT !.pc = "finally", !.exit = "open_failed"]
            /\ channel' = channel
    /\ UNCHANGED <<srv, network, tvars>>
    /\ DemoUnchanged

\* while not channel.recv_ready() ...
ClientPollReady ==
    /\ cli.pc = "poll_ready"
    /\ cli' = [cli EXCEPT !.pc = IF channel.in_buffer # <<>>
                                 THEN "after_loop" ELSE "poll_closed"]
    /\ UNCHANGED <<srv, channel, network, tvars>>
    /\ DemoUnchanged

\* ... and not channel.closed:
ClientPollClosed ==
    /\ cli.pc = "poll_closed"
    /\ cli' = [cli EXCEPT !.pc = IF channel.closed
                                 THEN "after_loop" ELSE "poll_active"]
    /\ UNCHANGED <<srv, channel, network, tvars>>
    /\ DemoUnchanged

\* a variant whose loop does not look at the transport
ClientPollActiveIgnoresTransport ==
    /\ cli.pc = "poll_active"
    /\ cli' = [cli EXCEPT !.pc = "poll_ready"]
    /\ UNCHANGED <<srv, channel, network, tvars>>
    /\ DemoUnchanged

\* if not transport.is_active(): return; else sleep and test again
ClientPollActive ==
    /\ cli.pc = "poll_active"
    /\ cli' = IF cli.transport # "active"
              THEN [cli EXCEPT !.pc = "finally", !.exit = "transport_closed",
                               !.log = @ \cup {"Transport closed unexpectedly."}]
              ELSE [cli EXCEPT !.pc = "poll_ready"]
    /\ UNCHANGED <<srv, channel, network, tvars>>
    /\ DemoUnchanged

Min(a, b) == IF a < b THEN a ELSE b

\* if channel.recv_ready(): received_data = channel.recv(1024)
ClientAfterLoop ==
    /\ cli.pc = "after_loop"
    /\ IF channel.in_buffer # <<>>
       THEN LET n == Min(RecvLimit, Len(channel.in_buffer))
            IN  /\ cli' = [cli EXCEPT
                        !.pc = "check_exit",
                        !.received = Data(SubSeq(channel.in_buffer, 1, n))]
                /\ channel' = [channel EXCEPT
                        !.in_buffer = SubSeq(@, n + 1, Len(@))]
       ELSE /\ cli' = [cli EXCEPT
                    !.pc = "check_exit",
                    !.log = @ \cup {"Channel closed before receiving data"}]
            /\ channel' = channel
    /\ UNCHANGED <<srv, network, tvars>>
    /\ DemoUnchanged

\* if channel.exit_status_ready(): exit_status = channel.recv_exit_status()
ClientCheckExit ==
    /\ cli.pc = "check_exit"
    /\ cli' = [cli EXCEPT !.pc = "finally", !.exit = "normal",
                          !.exit_status = channel.exit_status]
    /\ UNCHANGED <<srv, channel, network, tvars>>
    /\ DemoUnchanged

\* finally: close the channel if open, the transport if active
ClientFinallyTransport ==
    /\ cli.pc = "finally"
    /\ cli' = [cli EXCEPT !.pc = "close_socket",
                          !.transport = IF @ = "active" THEN "closed" ELSE @]
    /\ channel' = [channel EXCEPT !.closed = IF cli.chan THEN TRUE ELSE @]
    /\ UNCHANGED <<srv, network, tvars>>
    /\ DemoUnchanged

\* finally: client_socket.close()
ClientCloseSocket ==
    /\ cli.pc = "close_socket"
    /\ cli' = [cli EXCEPT !.pc = "done", !.socket = "closed"]
    /\ UNCHANGED <<srv, channel, network, tvars>>
    /\ DemoUnchanged

\* except Exception: a statement of the handler's try body raises
ServerRaises ==
    /\ srv.pc \in {"wait_auth", "accept", "sendall", "send_exit_status",
                   "shutdown_write", "close"}
    /\ srv' = [srv EXCEPT !.pc = "finally", !.exit = "exception"]
    /\ UNCHANGED <<cli, channel, network, tvars>>
    /\ DemoUnchanged

\* except Exception: the read or the exit status query raises; the tests of
\* the wait loop read attributes and sleep, they raise nothing
ClientRaises ==
    /\ cli.pc \in {"after_loop", "check_exit"}
    /\ cli' = [cli EXCEPT !.pc = "finally", !.exit = "exception"]
    /\ UNCHANGED <<srv, channel, network, tvars>>
    /\ DemoUnchanged

\* the client's transport thread takes the next message from the server
Deliver ==
    /\ network # <<>>
    /\ network' = Tail(network)
    /\ LET m == Head(network)
       IN  IF cli.transport # "active"
           THEN UNCHANGED <<cli, channel>>
           ELSE /\ cli' = IF m.type = "disconnect"
                          THEN [cli EXCEPT !.transport = "closed"] ELSE cli
                /\ channel' =
                     IF m.type = "data"
                     THEN [channel EXCEPT !.in_buffer = @ \o m.data]
                     ELSE IF m.type = "exit-status"
                     THEN [channel EXCEPT !.exit_status = PyInt(m.status)]
                     ELSE IF m.type = "eof"
                     THEN [channel EXCEPT !.eof = TRUE]
                     ELSE IF m.type = "close"
                     THEN [channel EXCEPT !.closed = TRUE]
                     ELSE channel
    /\ UNCHANGED <<srv, tvars>>
    /\ DemoUnchanged

\* the server's transport thread sees that the client is gone
ServerSeesDisconnect ==
    /\ cli.transport = "closed"
    /\ srv.transport = "active"
    /\ srv' = [srv EXCEPT !.transport = "closed"]
    /\ UNCHANGED <<cli, channel, network, tvars>>
    /\ DemoUnchanged

AuthOutcomes ==
    {"ok", "partial", "AuthenticationException", "SSHException", "Exception"}

NextDemo ==
    \/ \E ok \in BOOLEAN : ServerConstruct(ok)
    \/ \E ok \in BOOLEAN : ClientConstruct(ok)
    \/ \E outcome \in {"ok", "failed_alive", "failed_dead"}, suite \in DemoSuites :
          StartSession(outcome, suite)
    \/ ServerWaitAuth
    \/ ServerAccept
    \/ ServerSendall
    \/ ServerSendExitStatus
    \/ ServerShutdownWrite
    \/ ServerClose
    \/ ServerFinallyTransport
    \/ ServerCloseSocket
    \/ \E outcome \in AuthOutcomes : ClientAuthNone(outcome)
    \/ ClientCheckAuth
    \/ \E outcome \in {"ok", "Exception"} : ClientOpenSession(outcome)
    \/ ClientPollReady
    \/ ClientPollClosed
    \/ ClientPollActive
    \/ ClientAfterLoop
    \/ ClientCheckExit
    \/ ClientFinallyTransport
    \/ ClientCloseSocket
    \/ Deliver
    \/ ServerSeesDisconnect
    \/ ServerRaises
    \/ ClientRaises

InitRun ==
    InitTransport /\ InitRegistry /\ InitNoSessions /\ InitLink /\ InitDemo /\ InitHandlers

SpecDemo == InitRun /\ [][NextDemo]_vars

\* the steps of the client's main thread
ClientThread ==
    \/ ClientConstruct(TRUE) \/ ClientConstruct(FALSE)
    \/ \E outcome \in AuthOutcomes : ClientAuthNone(outcome)
    \/ ClientCheckAuth
    \/ \E outcome \in {"ok", "Exception"} : ClientOpenSession(outcome)
    \/ ClientPollReady
    \/ ClientPollClosed
    \/ ClientPollActive
    \/ ClientAfterLoop
    \/ ClientCheckExit
    \/ ClientFinallyTransport
    \/ ClientCloseSocket

InitLive ==
    InitTransport /\ InitRegistry /\ InitNoSessions /\ InitLink /\ InitDemo /\ InitHandlers

\* the same run with a client thread that is not starved: whenever it can
\* take its next step it eventually does
SpecDemoLive == InitLive /\ [][NextDemo]_vars /\ WF_vars(ClientThread)

-----------------------------------------------------------------------------
(* The claims *)

Directions == {"in", "out"}

HasCall(calls, op, arg) == \E i \in DOMAIN calls : calls[i] = Call(op, arg)

CountCalls(calls, op) == Cardinality({i \in DOMAIN calls : calls[i].op = op})

\* the step that is an outbound activation, and the one that is an inbound one
OutboundStep == phase = "kex" /\ phase' = "newkeys_sent"
InboundStep == phase = "newkeys_sent" /\ phase' = "idle"

\* C1: for each direction and each activation (initial or rekey) the
\* null-aware path is taken if and only if the cipher or the MAC negotiated
\* for that direction is "none"; otherwise the subclass only delegates: its
\* one call is the superclass method, it sends nothing and calls no packetizer
\* method itself.
C1_NullPathIffNone ==
    \A d \in Directions :
        last[d].path # "never" =>
            /\ last[d].path = "null" <=>
                   (last[d].cipher = "none" \/ last[d].mac = "none")
            /\ last[d].path = "standard" =>
                   /\ Len(last[d].calls) = 1
                   /\ last[d].calls[1].op =
                        (IF d = "in" THEN "super._activate_inbound"
                         ELSE "super._activate_outbound")

C1_Witness ==
    /\ last.out.path = "null" /\ last.out.cipher = "none"
    /\ last["in"].path = "standard"
    /\ kex_count = 2

\* C2: in the null-aware path, a cipher "none" gives the packetizer a null
\* cipher engine and no IV; a MAC "none" with a non-AEAD cipher gives it a
\* null MAC engine, MAC size 0, a null MAC key and encrypt-then-mac false.
\* _get_engine returns null exactly for the name "none" and what the standard
\* factory returns for every other name.
C2_NullEngines ==
    /\ \A d \in Directions :
          last[d].path = "null" =>
              LET c == packetizer[d].cipher
              IN  /\ last[d].cipher = "none" =>
                        c.block_engine = None /\ c.iv = None
                  /\ (last[d].mac = "none" /\ ~c.aead) =>
                        /\ c.mac_engine = None
                        /\ c.mac_size = 0
                        /\ c.mac_key = None
                        /\ c.etm = FALSE
    /\ \A name \in CipherNames, op \in {"ENCRYPT", "DECRYPT"}, aead \in BOOLEAN :
          LET key == ComputeKey("C", 16)
              iv == ComputeKey("A", 16)
          IN  /\ (GetEngine(name, key, iv, op, aead) = None) <=> (name = "none")
              /\ name # "none" =>
                    GetEngine(name, key, iv, op, aead) =
                        SuperGetEngine(name, key, iv, op, aead)

C2_Witness ==
    /\ last.out.path = "null" /\ last.out.cipher = "none" /\ last.out.mac # "none"
    /\ last["in"].path = "null" /\ last["in"].cipher = "aes128-ctr"
    /\ last["in"].mac = "none"

\* C3: on every activation of a direction whose cipher or MAC is "none" the
\* key derivation for the direction's IV, encryption key and integrity key is
\* still performed.
C3_DerivationNotSkipped ==
    \A d \in Directions :
        last[d].path = "null" =>
            LET slots == IF d = "in" THEN InboundSlots ELSE OutboundSlots
            IN  /\ HasCall(last[d].calls, "_compute_key", slots.iv)
                /\ HasCall(last[d].calls, "_compute_key", slots.key)
                /\ HasCall(last[d].calls, "_compute_key", slots.mac)

\* C4: an activation of one direction leaves the negotiated algorithm names,
\* the other direction's packetizer state (cipher, MAC, compressor, sequence
\* number) and the channel table as they were, on the null-aware path as on
\* the standard one.
C4_ActivationFrame ==
    [][/\ OutboundStep =>
            /\ negotiated' = negotiated
            /\ channels' = channels
            /\ packetizer'["in"] = packetizer["in"]
       /\ InboundStep =>
            /\ negotiated' = negotiated
            /\ channels' = channels
            /\ packetizer'.out = packetizer.out]_vars

C4_Witness ==
    /\ last["in"].path = "null" /\ last["in"].rekey /\ last["in"].strict
    /\ last.out.path = "null"
    /\ channels # {}
    /\ packetizer.out.seqno # 0

\* C5: a sequence number is reset only in strict mode, once per activation of
\* its direction: outbound right after NEWKEYS is sent, inbound once the
\* received NEWKEYS is handled.  Every other change of a sequence number is
\* the step to the next number.
C5_ResetOnlyInStrictMode ==
    [][/\ OutboundStep =>
            LET sent == NextSeqno(packetizer.out.seqno)
                newkeys == IF agreed_on_strict_kex THEN 0 ELSE sent
            IN  /\ packetizer'.out.seqno =
                      IF ext_info_sent' # ext_info_sent
                      THEN NextSeqno(newkeys) ELSE newkeys
                /\ packetizer'["in"].seqno = packetizer["in"].seqno
       /\ InboundStep =>
            /\ packetizer'["in"].seqno =
                  IF agreed_on_strict_kex THEN 0
                  ELSE NextSeqno(packetizer["in"].seqno)
            /\ packetizer'.out.seqno = packetizer.out.seqno
       /\ ~OutboundStep /\ ~InboundStep =>
            \A d \in Directions :
                packetizer'[d].seqno \in
                    {packetizer[d].seqno, NextSeqno(packetizer[d].seqno)}
       /\ \A d \in Directions :
            last'[d].path = "null" =>
                LET calls == last'[d].calls
                IN  /\ CountCalls(calls, "reset_seqno_" \o d) =
                          (IF last'[d].strict THEN 1 ELSE 0)
                    /\ CountCalls(calls, "reset_seqno_" \o
                                         (IF d = "in" THEN "out" ELSE "in")) = 0
                    /\ (d = "out" /\ last'[d].strict) =>
                          /\ calls[1] = Call("_send_message", "NEWKEYS")
                          /\ calls[2] = Call("reset_seqno_out", "")]_vars

C5_Witness ==
    /\ last.out.path = "null" /\ last.out.strict /\ last.out.rekey
    /\ last["in"].path = "null" /\ kex_count = 2
    /\ packetizer["in"].seqno = 0

\* C6: the null-aware outbound activation sends the extension-info message
\* only in server mode and only when the peer advertised "ext-info-c".
C6_ExtInfoOnlyServerOnRequest ==
    /\ ~server_mode => ext_info_sent.null = 0
    /\ (/\ last.out.path = "null"
        /\ HasCall(last.out.calls, "_send_message", "EXT_INFO")) =>
            /\ server_mode
            /\ last.out.ext_info = Str("ext-info-c")

C6_Witness ==
    /\ last.out.path = "null"
    /\ HasCall(last.out.calls, "_send_message", "EXT_INFO")
    /\ ext_info_sent.null = 1

\* C7: over the life of a transport the null-aware outbound activation sends
\* the extension-info message at most once, and never on a rekey after
\* authentication.
C7_ExtInfoAtMostOnce ==
    /\ ext_info_sent.null <= 1
    /\ (last.out.path = "null" /\ last.out.rekey /\ last.out.authenticated) =>
            ~HasCall(last.out.calls, "_send_message", "EXT_INFO")

\* C8: a direction activated with cipher "none" has block size 8 in the
\* packetizer.
C8_NullBlockSize ==
    \A d \in Directions :
        (last[d].path # "never" /\ last[d].cipher = "none") =>
            packetizer[d].cipher.block_size = 8

C8_Witness ==
    /\ last["in"].path = "null" /\ last["in"].cipher = "none"
    /\ last.out.path = "null" /\ last.out.cipher = "none"

Range(seq) == {seq[i] : i \in DOMAIN seq}

\* C9: constructing sessions and putting "none" first or last in their
\* preference lists leaves every other entry of the process-wide cipher and
\* MAC tables as it was, and each session's lists are what its own steps
\* made them, the other names in their original order.
C9_RegistryAndListsKept ==
    /\ \A name \in DOMAIN BaseCipherInfo :
          name \in DOMAIN cipher_info /\ cipher_info[name] = BaseCipherInfo[name]
    /\ \A name \in DOMAIN BaseMacInfo :
          name \in DOMAIN mac_info /\ mac_info[name] = BaseMacInfo[name]
    /\ DOMAIN cipher_info \subseteq DOMAIN BaseCipherInfo \cup {"none"}
    /\ DOMAIN mac_info \subseteq DOMAIN BaseMacInfo \cup {"none"}
    /\ \A s \in SessionIds :
          LET ciphers == sessions[s].preferred_ciphers
              macs == sessions[s].preferred_macs
              stage == IF sessions[s].pc = "started" THEN agreed[s].stage
                       ELSE sessions[s].pc
          IN  /\ stage = "new" => ciphers = <<>> /\ macs = <<>>
              /\ stage = "constructed" =>
                    /\ ciphers = ClassPreferredCiphers \o <<"none">>
                    /\ macs = ClassPreferredMacs \o <<"none">>
              /\ stage = "cipher_first" =>
                    /\ ciphers = <<"none">> \o ClassPreferredCiphers
                    /\ macs = ClassPreferredMacs \o <<"none">>
              /\ stage = "ready" =>
                    /\ ciphers = <<"none">> \o ClassPreferredCiphers
                    /\ macs = <<"none">> \o ClassPreferredMacs
              /\ stage # "new" =>
                    /\ SelectSeq(ciphers, LAMBDA c : c # "none") = ClassPreferredCiphers
                    /\ SelectSeq(macs, LAMBDA m : m # "none") = ClassPreferredMacs

C9_Witness ==
    /\ sessions[1].pc = "ready"
    /\ sessions[2].pc = "constructed"
    /\ "none" \in DOMAIN cipher_info

\* x is the first name of the client's list that the server's list holds
IsFirstMutual(x, client, server) ==
    \E i \in DOMAIN client :
        /\ client[i] = x
        /\ x \in Range(server)
        /\ \A j \in 1..(i - 1) : client[j] \notin Range(server)

\* C10: negotiation selects, for each category and direction, the first
\* name of the client's list that the server's list holds too, whatever the
\* server prefers, and fails with ProtocolError exactly when a category has
\* no mutual name; when the session went through the demo's reordering and the
\* peer lists "none" first too, cipher and MAC are "none" in both directions.
C10_ClientPreferenceDecides ==
    \A s \in SessionIds :
        agreed[s].status # "pending" =>
            LET own == sessions[s]
                clientCiphers == IF server_mode THEN peer.ciphers
                                 ELSE own.preferred_ciphers
                serverCiphers == IF server_mode THEN own.preferred_ciphers
                                 ELSE peer.ciphers
                clientMacs == IF server_mode THEN peer.macs ELSE own.preferred_macs
                serverMacs == IF server_mode THEN own.preferred_macs ELSE peer.macs
                a == agreed[s]
            IN  /\ a.status \in {"agreed", "ProtocolError"}
                /\ a.status = "agreed" =>
                      /\ IsFirstMutual(a.local_cipher, clientCiphers, serverCiphers)
                      /\ IsFirstMutual(a.remote_cipher, clientCiphers, serverCiphers)
                      /\ IsFirstMutual(a.local_mac, clientMacs, serverMacs)
                      /\ IsFirstMutual(a.remote_mac, clientMacs, serverMacs)
                /\ a.status = "ProtocolError" <=>
                      \/ Range(clientCiphers) \cap Range(serverCiphers) = {}
                      \/ Range(clientMacs) \cap Range(serverMacs) = {}
                /\ (/\ a.stage = "ready"
                    /\ Head(peer.ciphers) = "none"
                    /\ Head(peer.macs) = "none") =>
                      /\ a.status = "agreed"
                      /\ a.local_cipher = "none" /\ a.remote_cipher = "none"
                      /\ a.local_mac = "none" /\ a.remote_mac = "none"

C10_Witness ==
    /\ agreed[1].status = "agreed" /\ agreed[1].stage = "ready"
    /\ Head(peer.ciphers) = "none" /\ Head(peer.macs) = "none"
    /\ agreed[1].local_cipher = "none" /\ agreed[1].local_mac = "none"
    /\ agreed[2].status = "agreed" /\ agreed[2].stage = "constructed"
    /\ agreed[2].local_cipher # "none"

IsPrefix(short, long) ==
    /\ Len(short) <= Len(long)
    /\ \A i \in DOMAIN short : short[i] = long[i]

\* C11: for every cipher/MAC combination, once the sender's outbound half and
\* the peer's inbound half are activated for the same negotiation, what
\* receive yields on the peer is what was handed to send, payload by payload
\* and in order, as long as no packet is altered on the way.
C11_RoundTrip ==
    ~tampered =>
        /\ rx_error = ""
        /\ IsPrefix(rx_log, tx_log)
        /\ Len(rx_log) + Len(wire) = Len(tx_log)

C11_Witness ==
    /\ ~tampered
    /\ Len(rx_log) = 2
    /\ rx_log[1] # rx_log[2]
    /\ rx_log[2].bytes = <<>>
    /\ last["in"].path = "null"
    /\ last["in"].cipher = "none"
    /\ last["in"].mac = "hmac-sha2-256"

\* the step in which the peer takes the packet at the head of the link
ReceiveStep == wire # <<>> /\ wire' = Tail(wire)

\* the payload the next receive is about, as it was handed to send
NextPayload == tx_log[Len(rx_log) + 1]

Detected == rx_error' = "IntegrityError" /\ rx_log' = rx_log

Undetected ==
    /\ rx_error' = ""
    /\ rx_log' = Append(rx_log, IF Head(wire).altered = "payload"
                                THEN FlipData(NextPayload) ELSE NextPayload)

\* C12 as stated: a packet with one byte of payload or MAC changed in transit
\* makes receive fail with IntegrityError when the direction has a real MAC,
\* and is delivered, altered, when the direction's MAC is "none".
C12_TamperDetectedIffMac ==
    [][(ReceiveStep /\ Head(wire).altered # "") =>
            IF last["in"].mac # "none" THEN Detected ELSE Undetected]_vars

\* C12, amended: the change is detected (IntegrityError) when the direction
\* has a real MAC or an AEAD cipher, whose tag is verified whatever the MAC
\* name; it goes undetected, the altered payload being delivered, when the MAC
\* is "none" and the cipher is not AEAD.
C12_TamperDetectedIffMacOrTag ==
    [][(ReceiveStep /\ Head(wire).altered # "") =>
            IF \/ last["in"].mac # "none"
               \/ Get(cipher_info[last["in"].cipher], "is_aead", FALSE)
            THEN Detected ELSE Undetected]_vars

C12_Witness ==
    /\ tampered
    /\ wire = <<>>
    /\ rx_error = ""
    /\ Len(rx_log) = Len(tx_log)
    /\ rx_log # tx_log
    /\ last["in"].cipher = "aes128-ctr"
    /\ last["in"].mac = "none"

NoneSuite == Suite("none", "none", "none", "none", "none")

\* C13: in the run where both peers negotiate "none"/"none", authentication
\* succeeds, the channel opens and the server goes through its send,
\* exit-status, EOF and close steps, the client ends with exactly the bytes
\* the server sent and with exit status 0, however its polling interleaves
\* with those steps.
C13_ClientGetsBytesAndStatus ==
    (/\ cli.pc = "done"
     /\ cli.chan
     /\ cli.exit # "exception"
     /\ negotiated = NoneSuite
     /\ srv.sent = <<"data", "exit-status", "eof", "close">>) =>
        /\ cli.received = Data(Message)
        /\ cli.exit_status = PyInt(ExitStatus)

\* C14: the client reaches the channel-open request, and a channel is opened,
\* only when authentication has succeeded; after a failed or incomplete
\* "none" authentication no channel is opened on that transport.
C14_ChannelOnlyWhenAuthenticated ==
    /\ (cli.pc = "open_session" \/ cli.chan \/ channel.opened) => cli.authenticated
    /\ cli.exit \in {"auth_failed", "not_authenticated"} =>
            ~cli.chan /\ ~channel.opened

C14_Witness ==
    /\ cli.pc = "done"
    /\ cli.exit = "not_authenticated"
    /\ ~channel.opened
    /\ srv.pc = "done"

\* C15 (as stated): what the server has put on the channel is always a
\* prefix of data, EOF, exit status, close, or of data, EOF, close.
C15_DataEofStatusClose ==
    \/ IsPrefix(srv.sent, <<"data", "eof", "exit-status", "close">>)
    \/ IsPrefix(srv.sent, <<"data", "eof", "close">>)

\* C15 (amended): what the server has put on the channel is always a prefix
\* of data, exit status, EOF, close: the exit status precedes the EOF, the
\* close comes last and nothing follows it.
C15_DataStatusEofClose ==
    /\ IsPrefix(srv.sent, <<"data", "exit-status", "eof", "close">>)
    /\ srv.exit = "normal" => srv.sent = <<"data", "exit-status", "eof", "close">>

C15_Witness ==
    /\ srv.pc = "done"
    /\ srv.sent = <<"data", "exit-status", "eof", "close">>

\* the client has left its wait loop for good
ClientPastLoop == cli.chan /\ cli.pc = "done" /\ cli.exit # "exception"

\* the server's data reached the client's channel
DataDelivered == channel.in_buffer # <<>> \/ cli.received # None

\* C16: when the server's data was delivered to the client's channel, the
\* client's wait loop is followed by a read of that data, also when the
\* server has already half-closed or closed the channel, and the client
\* never reports that the channel closed before data was received.
C16_BufferedDataIsRead ==
    (ClientPastLoop /\ DataDelivered) =>
        /\ cli.received = Data(Message)
        /\ "Channel closed before receiving data" \notin cli.log

PayloadStep ==
    /\ phase' = phase
    /\ packetizer' # packetizer
    /\ packetizer'.need_rekey = packetizer.need_rekey

\* the cipher state the latest key exchange gives each direction
InboundOfLatestKex ==
    (IF InboundNeedsNone THEN NullInbound ELSE StandardInbound).kwargs

OutboundOfLatestKex ==
    (IF OutboundNeedsNone THEN NullOutbound ELSE StandardOutbound).kwargs

\* C17: in every key exchange, initial or rekey, the outbound activation
\* leaves NEWKEYS as the only packet expected; from then until the inbound
\* activation the Packetizer is touched by nothing else, no payload is
\* processed, and every payload that is processed finds both directions
\* under the cipher state of the latest key exchange and moves exactly one
\* sequence number by one, so the order of the packets is kept across it.
C17_KeysBeforePayload ==
    [][/\ phase' = "newkeys_sent" => expected_packet' = {"NEWKEYS"}
       /\ (phase = "newkeys_sent" /\ packetizer' # packetizer) => InboundStep
       /\ PayloadStep =>
            /\ phase = "idle"
            /\ kex_count > 0
            /\ packetizer["in"].cipher = InboundOfLatestKex
            /\ packetizer.out.cipher = OutboundOfLatestKex
            /\ \/ /\ packetizer'["in"] = [packetizer["in"] EXCEPT
                                            !.seqno = NextSeqno(@)]
                  /\ packetizer'.out = packetizer.out
               \/ /\ packetizer'.out = [packetizer.out EXCEPT
                                            !.seqno = NextSeqno(@)]
                  /\ packetizer'["in"] = packetizer["in"]]_vars

\* a payload was read after a rekey through the null-aware path
C17_Witness ==
    /\ kex_count = 2
    /\ phase = "idle"
    /\ last["in"].path = "null"
    /\ last.out.path = "null"
    /\ packetizer["in"].seqno # 0
    /\ packetizer.out.seqno # 0
    /\ agreed_on_strict_kex

\* the step in which the activation method of a direction ran a second time
Reactivated(dir) == phase = "idle" /\ phase' = "idle" /\ last'[dir].calls # last[dir].calls

\* the second run has the parameters of the first
SameParameters(dir) == last[dir].authenticated = authenticated

\* the packets a run of the outbound activation sends
PacketsOfActivation ==
    LET act == IF OutboundNeedsNone THEN NullOutbound ELSE StandardOutbound
    IN  IF act.ext_info THEN 2 ELSE 1

\* the sequence number of a direction that went on counting over the
\* second activation
Continued(dir) ==
    IF dir = "in" THEN packetizer["in"].seqno
    ELSE (packetizer.out.seqno + PacketsOfActivation) % SeqMod

\* the sequence number of a direction that was restarted by the second
\* activation
Restarted(dir) ==
    IF dir = "in" THEN 0
    ELSE (PacketsOfActivation - 1) % SeqMod

SameCipherState(dir) ==
    /\ packetizer'[dir].cipher = packetizer[dir].cipher
    /\ packetizer'[dir].compressor = packetizer[dir].compressor

\* C18 (as stated): a second activation of a direction with the parameters
\* of the first leaves its cipher, MAC, block size, keys and compressor as
\* they are, and its sequence number goes on counting.
C18_SecondActivationContinues ==
    [][\A dir \in Directions :
          (Reactivated(dir) /\ SameParameters(dir)) =>
              /\ SameCipherState(dir)
              /\ packetizer'[dir].seqno = Continued(dir)]_vars

\* C18 (amended): a second activation of a direction with the parameters of
\* the first leaves its cipher, MAC, block size, keys and compressor as they
\* are; its sequence number goes on counting unless strict key exchange mode
\* was agreed, in which case the second activation restarts it at zero.
C18_SecondActivationContinuesUnlessStrict ==
    [][\A dir \in Directions :
          (Reactivated(dir) /\ SameParameters(dir)) =>
              /\ SameCipherState(dir)
              /\ packetizer'[dir].seqno =
                    IF agreed_on_strict_kex THEN Restarted(dir)
                    ELSE Continued(dir)]_vars

\* both directions were activated twice through the null-aware path, once
\* with and once without a restart
C18_Witness ==
    /\ \A dir \in Directions :
          /\ last[dir].path = "null"
          /\ last[dir].calls = CallsOf(dir) \o CallsOf(dir)
    /\ negotiated.local_cipher # "none"
    /\ packetizer["in"].seqno # 0

\* connection i took a step
Moved(i) ==
    \/ handlers'[i] # handlers[i]
    \/ sessions'[i] # sessions[i]
    \/ agreed'[i] # agreed[i]

\* C19: every accepted connection has a thread, a transport, a handler and
\* an event of its own; all transports with a server key hold the one host
\* key; a handler gets past its wait only when authentication succeeded on
\* its own connection; a step of one connection leaves every other
\* connection as it is, and once some transport is constructed no step
\* changes the registry.
C19_ConnectionsIndependent ==
    [][/\ \A i, j \in Accepted : i # j =>
            /\ handlers[i].thread # handlers[j].thread
            /\ handlers[i].socket # handlers[j].socket
            /\ handlers[i].transport # 0 =>
                    handlers[i].transport # handlers[j].transport
            /\ handlers[i].handler # 0 =>
                    /\ handlers[i].handler # handlers[j].handler
                    /\ handlers[i].event # handlers[j].event
            /\ Moved(i) => ~Moved(j)
       /\ \A i \in Accepted :
            /\ handlers[i].server_key \in {None, HostKey}
            /\ handlers[i].pc = "serving" => handlers[i].authed
            /\ handlers'[i].pc = "serving" => handlers'[i].authed
            /\ sessions[i].pc # "new" => cipher_info' = cipher_info /\ mac_info' = mac_info
       /\ Accepted \subseteq DOMAIN handlers'
       /\ events' # events =>
            \E i \in Accepted : /\ events' = events \cup {handlers[i].event}
                                /\ handlers'[i].authed /\ ~handlers[i].authed]_vars

\* two connections at once: one is being served, the other timed out
\* waiting for its own authentication
C19_Witness ==
    /\ Len(handlers) = 2
    /\ handlers[1].pc = "serving"
    /\ handlers[2].exit = "auth_timeout"
    /\ handlers[2].event \notin events

\* the cipher half and the integrity half of the arguments handed to
\* set_inbound_cipher / set_outbound_cipher
CipherPart(kw) ==
    [block_engine |-> kw.block_engine, block_size |-> kw.block_size,
     sdctr |-> kw.sdctr, aead |-> kw.aead, iv |-> kw.iv]

MacPart(kw) ==
    [mac_engine |-> kw.mac_engine, mac_size |-> kw.mac_size,
     mac_key |-> kw.mac_key, etm |-> kw.etm]

\* what the null-aware path has to leave of a direction whose cipher and MAC
\* names are given, std being what the standard sequence computes for them
AsStandard(cipher, mac, got, std) ==
    LET aead == Get(cipher_info[cipher], "is_aead", FALSE)
    IN  /\ cipher # "none" => CipherPart(got) = CipherPart(std)
        /\ cipher = "none" =>
              /\ got.block_engine = None /\ got.iv = None /\ ~got.sdctr
              /\ got.block_size = std.block_size
        /\ (mac # "none" \/ aead) => MacPart(got) = MacPart(std)
        /\ (mac = "none" /\ ~aead) =>
              MacPart(got) = [mac_engine |-> None, mac_size |-> 0,
                              mac_key |-> None, etm |-> FALSE]
        /\ got.etm = (~aead /\ mac # "none" /\ ContainsEtm(mac))
        /\ aead => /\ MacPart(got) = [mac_engine |-> None, mac_size |-> 16,
                                      mac_key |-> None, etm |-> FALSE]
                   /\ got.iv # None
                   /\ got.iv = got.block_engine.iv

\* C21: when an activation goes through the null-aware path with exactly
\* one of cipher and MAC "none", or an AEAD cipher with MAC "none", the
\* component that is not "none" is configured as the standard sequence
\* computes it (engine, block size, counter mode, MAC engine, size, key,
\* encrypt-then-mac flag; for an AEAD cipher no MAC engine, size 16, no MAC
\* key and the IV handed over), and the "none" component is null.
C21_OtherComponentAsStandard ==
    [][/\ (InboundStep /\ InboundNeedsNone
              /\ ~(negotiated.remote_cipher = "none" /\ negotiated.remote_mac = "none")) =>
            AsStandard(negotiated.remote_cipher, negotiated.remote_mac,
                       packetizer'["in"].cipher, StandardInbound.kwargs)
       /\ (OutboundStep /\ OutboundNeedsNone
              /\ ~(negotiated.local_cipher = "none" /\ negotiated.local_mac = "none")) =>
            AsStandard(negotiated.local_cipher, negotiated.local_mac,
                       packetizer'.out.cipher, StandardOutbound.kwargs)]_vars

\* an AEAD cipher with MAC "none" came in and a counter-mode cipher with MAC
\* "none" went out, both through the null-aware path
C21_Witness ==
    /\ phase = "idle"
    /\ kex_count > 0
    /\ last["in"].path = "null"
    /\ last.out.path = "null"
    /\ negotiated.remote_cipher = "aes128-gcm@openssh.com"
    /\ negotiated.remote_mac = "none"
    /\ negotiated.local_cipher = "aes128-ctr"
    /\ negotiated.local_mac = "none"
    /\ packetizer["in"].cipher.mac_size = 16
    /\ packetizer.out.cipher.sdctr

\* the slot letters the keys of one direction's cipher state were derived
\* from, "" where no key was derived
SlotsUsed(kw) ==
    [iv |-> IF kw.block_engine = None THEN "" ELSE kw.block_engine.iv.slot,
     key |-> IF kw.block_engine = None THEN "" ELSE kw.block_engine.key.slot,
     mac |-> IF kw.mac_key = None THEN "" ELSE kw.mac_key.slot]

\* used agrees with letters wherever a key was derived
WithinSlots(used, letters) ==
    \A k \in {"iv", "key", "mac"} : used[k] \in {"", letters[k]}

ClientToServer == [iv |-> "A", key |-> "C", mac |-> "E"]
ServerToClient == [iv |-> "B", key |-> "D", mac |-> "F"]

Letters(slots) == {slots.iv, slots.key, slots.mac}

\* C22: once both halves of a traffic direction are activated, the sender's
\* outbound keys and the receiver's inbound keys come from the same slot
\* letters, A, C, E for client-to-server traffic and B, D, F for
\* server-to-client traffic; and on each peer the letters of its inbound
\* direction and those of its outbound direction have nothing in common.
C22_SameSlotsBothEnds ==
    /\ (phase = "idle" /\ kex_count > 0 /\ side = "sender") =>
          LET letters == IF server_mode THEN ServerToClient ELSE ClientToServer
              out == SlotsUsed(packetizer.out.cipher)
              inb == SlotsUsed(packetizer["in"].cipher)
          IN  /\ WithinSlots(out, letters)
              /\ WithinSlots(inb, letters)
              /\ out = inb
    /\ Letters(InboundSlots) \cap Letters(OutboundSlots) = {}
    /\ InboundSlots = (IF server_mode THEN ClientToServer ELSE ServerToClient)
    /\ OutboundSlots = (IF server_mode THEN ServerToClient ELSE ClientToServer)

\* a client sent under a cipher without a MAC, its server received, both
\* through the null-aware path
C22_Witness ==
    /\ phase = "idle"
    /\ kex_count > 0
    /\ side = "sender"
    /\ ~server_mode
    /\ last.out.path = "null"
    /\ last["in"].path = "null"
    /\ SlotsUsed(packetizer.out.cipher) = [iv |-> "A", key |-> "C", mac |-> ""]
    /\ SlotsUsed(packetizer["in"].cipher) = [iv |-> "A", key |-> "C", mac |-> ""]
    /\ rx_log # <<>>

\* the place of the first call of an operation in a sequence of calls, 0
\* when it is not made
IndexOf(calls, op) ==
    LET at == {i \in DOMAIN calls : calls[i].op = op}
    IN  IF at = {} THEN 0 ELSE CHOOSE i \in at : \A j \in at : i <= j

\* the place of the last message sent
LastSend(calls) ==
    LET at == {i \in DOMAIN calls : calls[i].op = "_send_message"}
    IN  CHOOSE i \in at : \A j \in at : j <= i

\* C23: in every outbound activation through the null-aware path NEWKEYS
\* goes out first, under the previous cipher state, compressor and sequence
\* number; in strict mode the sequence number is reset next; the cipher
\* state is replaced once; compression is set up after that; an
\* extension-info message goes out after both, under the new state; the
\* expectation of the peer's NEWKEYS comes last; the Packetizer is left with
\* the sequence number this order gives.
C23_OutboundOrder ==
    [][(OutboundStep /\ OutboundNeedsNone) =>
        LET calls == last'.out.calls
            r == RunCalls(calls, Running(packetizer.out.seqno))
            cipher == IndexOf(calls, "set_outbound_cipher")
            reset == IndexOf(calls, "reset_seqno_out")
            comp == IndexOf(calls, "set_outbound_compressor")
        IN  /\ calls[1] = Call("_send_message", "NEWKEYS")
            /\ r.sent[1] = [type |-> "NEWKEYS", cipher |-> "old",
                            compressor |-> "old",
                            seqno |-> packetizer.out.seqno]
            /\ (reset # 0) = agreed_on_strict_kex
            /\ reset # 0 => 1 < reset /\ reset < cipher
            /\ r.cipher_sets = 1
            /\ comp # 0 => cipher < comp
            /\ (comp # 0) = NullOutbound.compress
            /\ \A i \in 2..Len(r.sent) :
                  /\ r.sent[i].type = "EXT_INFO"
                  /\ r.sent[i].cipher = "new"
                  /\ r.sent[i].compressor = r.compressor
                  /\ r.sent[i].seqno =
                        IF agreed_on_strict_kex THEN 0
                        ELSE NextSeqno(packetizer.out.seqno)
            /\ Len(r.sent) > 1 => cipher < LastSend(calls) /\ comp < LastSend(calls)
            /\ calls[Len(calls)] = Call("_expect_packet", "NEWKEYS")
            /\ LastSend(calls) < Len(calls)
            /\ r.expects = expected_packet'
            /\ r.seqno = packetizer'.out.seqno]_vars

\* a server in strict mode activated its outbound direction through the
\* null-aware path with compression and sent the extension-info message
C23_Witness ==
    /\ phase = "newkeys_sent"
    /\ last.out.path = "null"
    /\ agreed_on_strict_kex
    /\ HasCall(last.out.calls, "set_outbound_compressor", "")
    /\ HasCall(last.out.calls, "_send_message", "EXT_INFO")
    /\ packetizer.out.seqno = 1

\* the client is in its wait loop
InLoop == cli.pc \in {"poll_ready", "poll_closed", "poll_active"}

\* one of the three conditions the loop tests holds
LoopCanEnd ==
    \/ channel.in_buffer # <<>>
    \/ channel.closed
    \/ cli.transport # "active"

\* C24: the client leaves its wait loop only when data is ready, the
\* channel is closed or the transport is not active, so while none of the
\* three holds it stays in the loop; and once one of them holds the client
\* leaves the loop, goes through its cleanup and ends.
C24_WaitEndsIffReadyClosedInactive ==
    /\ [][(InLoop /\ ~InLoop') => LoopCanEnd]_vars
    /\ []((InLoop /\ []~LoopCanEnd) => []InLoop)
    /\ (InLoop /\ LoopCanEnd) ~>
          (cli.pc = "done" /\ cli.transport = "closed" /\ cli.socket = "closed")

\* the client waited, nothing was ever sent to it, and it left the loop and
\* finished its cleanup because its transport went inactive
C24_Witness ==
    /\ cli.pc = "done"
    /\ cli.exit = "transport_closed"
    /\ cli.socket = "closed"
    /\ channel.in_buffer = <<>>
    /\ srv.sent = <<>>

====
